---- MODULE Spec2Model ----
(***************************************************************************)
(* Gmail MCP server (23 tools) and the send-email webhook, modelled as a   *)
(* request-scoped state machine: one inbound request is received, its      *)
(* handler runs from await to await, every outbound provider call is       *)
(* appended to the request's call log with the outcome the provider gave,  *)
(* and the handler ends with a response or an error.                       *)
(*                                                                         *)
(* JavaScript strings are TLA+ strings (Len, \o and SubSeq act on them).   *)
(* A JavaScript value of unknown type is a record [t, s, n]: its typeof    *)
(* tag, its string content and its number (or length).                     *)
(***************************************************************************)
EXTENDS Integers, Sequences, FiniteSets, TLC

VARIABLES
    pc,             \* where the request's handler stands
    tool,           \* the handler serving the request: a tool name or "webhook"
    authorization,  \* the request's Authorization header (a JS value)
    env,            \* process.env as the webhook reads it
    args,           \* the tool's arguments / the webhook's request body
    gmail,          \* the provider client of the request: the credentials it is bound to
    local,          \* the handler's local variables
    calls,          \* the outbound provider calls of this request, in issue order
    response        \* what the caller gets back

vars == <<pc, tool, authorization, env, args, gmail, local, calls, response>>

----------------------------------------------------------------------------
(* Bounds of the model *)

\* longest messageIds list a batch request carries (above the cap of 50)
MaxIds == 75
\* most items a listing call returns
MaxItems == 3
\* most parts in the part tree of a fetched message
MaxParts == 3
\* most attachments an outbound message carries
MaxAttachments == 2
\* most headers of a fetched message
MaxHeaders == 2
\* longest text (in code units) given to the encoders on their own
MaxTextLen == 3
\* the number of concurrent requests
MaxRequests == 2

(* Program constants *)

\* messageIds.slice(0, 50)
BatchCap == 50
\* authHeader.slice(6)
SchemeLen == 6
\* Math.min(maxResults || 10, 100)
DefaultMaxResults == 10
SearchMaxResults == 100

----------------------------------------------------------------------------
(* JavaScript values *)

Undefined == [t |-> "undefined", s |-> "", n |-> 0]
Null      == [t |-> "null", s |-> "", n |-> 0]
JStr(str) == [t |-> "string", s |-> str, n |-> 0]
JNum(num) == [t |-> "number", s |-> "", n |-> num]
JArr(len) == [t |-> "array", s |-> "", n |-> len]
JObj      == [t |-> "object", s |-> "", n |-> 0]

\* !v is FALSE exactly for the truthy values
Truthy(v) ==
    CASE v.t = "undefined" -> FALSE
      [] v.t = "null"      -> FALSE
      [] v.t = "string"    -> v.s # ""
      [] v.t = "number"    -> v.n # 0
      [] OTHER             -> TRUE

\* String.prototype.startsWith
StartsWith(str, prefix) ==
    /\ Len(str) >= Len(prefix)
    /\ SubSeq(str, 1, Len(prefix)) = prefix

\* String.prototype.indexOf(ch, from), 1-based; 0 when absent
RECURSIVE IndexOf(_, _, _)
IndexOf(str, ch, from) ==
    IF from > Len(str) THEN 0
    ELSE IF SubSeq(str, from, from) = ch THEN from
    ELSE IndexOf(str, ch, from + 1)

\* Number -> decimal string, as a template literal renders it
RECURSIVE ToDecimal(_)
ToDecimal(num) ==
    IF num < 10 THEN SubSeq("0123456789", num + 1, num + 1)
    ELSE ToDecimal(num \div 10) \o SubSeq("0123456789", (num % 10) + 1, (num % 10) + 1)

\* Array.prototype.slice(0, k)
SliceTo(seq, k) == SubSeq(seq, 1, IF Len(seq) < k THEN Len(seq) ELSE k)

Min(a, b) == IF a < b THEN a ELSE b

----------------------------------------------------------------------------
(* Text encodings: UTF-16 code units, UTF-8 bytes, base64 and base64url *)

\* the characters written as TLA+ strings, in code order: printable ASCII
\* 32..95 and 97..126 (a string cannot hold the grave accent, 96), CR and LF
AsciiLow  == " !\"#$%&'()*+,-./0123456789:;<=>?@ABCDEFGHIJKLMNOPQRSTUVWXYZ[\\]^_"
AsciiHigh == "abcdefghijklmnopqrstuvwxyz{|}~"

\* String.prototype.charCodeAt for each such character
CharCode ==
    [ ch \in { SubSeq(AsciiLow, i, i) : i \in 1..Len(AsciiLow) }
             \cup { SubSeq(AsciiHigh, i, i) : i \in 1..Len(AsciiHigh) }
             \cup { "\r", "\n" } |->
        IF ch = "\r" THEN 13
        ELSE IF ch = "\n" THEN 10
        ELSE IF IndexOf(AsciiLow, ch, 1) > 0 THEN 31 + IndexOf(AsciiLow, ch, 1)
        ELSE 96 + IndexOf(AsciiHigh, ch, 1) ]

\* a string as the sequence of its UTF-16 code units
CodeUnits(str) == [ i \in 1..Len(str) |-> CharCode[SubSeq(str, i, i)] ]

IsHighSurrogate(u) == u >= 55296 /\ u <= 56319
IsLowSurrogate(u)  == u >= 56320 /\ u <= 57343

\* the UTF-8 bytes of a code point
Utf8OfCodePoint(cp) ==
    IF cp < 128 THEN << cp >>
    ELSE IF cp < 2048 THEN << 192 + (cp \div 64), 128 + (cp % 64) >>
    ELSE IF cp < 65536
         THEN << 224 + (cp \div 4096), 128 + ((cp \div 64) % 64), 128 + (cp % 64) >>
    ELSE << 240 + (cp \div 262144), 128 + ((cp \div 4096) % 64),
            128 + ((cp \div 64) % 64), 128 + (cp % 64) >>

\* the bytes Buffer.from(string) writes for the code unit at i: a surrogate
\* pair is one 4-byte sequence (written at its first unit), a surrogate
\* without its partner is written as U+FFFD
Utf8At(units, i) ==
    LET u == units[i]
    IN  IF IsHighSurrogate(u)
        THEN IF i < Len(units) /\ IsLowSurrogate(units[i + 1])
             THEN Utf8OfCodePoint(65536 + (u - 55296) * 1024 + (units[i + 1] - 56320))
             ELSE Utf8OfCodePoint(65533)
        ELSE IF IsLowSurrogate(u)
        THEN IF i > 1 /\ IsHighSurrogate(units[i - 1])
             THEN << >>
             ELSE Utf8OfCodePoint(65533)
        ELSE Utf8OfCodePoint(u)

RECURSIVE Utf8Range(_, _, _)
Utf8Range(units, lo, hi) ==
    IF lo > hi THEN << >>
    ELSE IF lo = hi THEN Utf8At(units, lo)
    ELSE LET mid == (lo + hi) \div 2
         IN  Utf8Range(units, lo, mid) \o Utf8Range(units, mid + 1, hi)

\* Buffer.from(string): the UTF-8 bytes of a string
Utf8Encode(units) == Utf8Range(units, 1, Len(units))

\* continuation bytes a lead byte asks for; 0 for any other byte
Utf8Needed(b) ==
    IF b >= 194 /\ b <= 223 THEN 1
    ELSE IF b >= 224 /\ b <= 239 THEN 2
    ELSE IF b >= 240 /\ b <= 244 THEN 3
    ELSE 0

\* the byte k places after the lead byte at i continues its sequence: the
\* first continuation byte is further restricted after E0, ED, F0 and F4
Utf8Fits(bytes, i, k) ==
    /\ i + k <= Len(bytes)
    /\ bytes[i + k] >= (IF k = 1 /\ bytes[i] = 224 THEN 160
                        ELSE IF k = 1 /\ bytes[i] = 240 THEN 144 ELSE 128)
    /\ bytes[i + k] <= (IF k = 1 /\ bytes[i] = 237 THEN 159
                        ELSE IF k = 1 /\ bytes[i] = 244 THEN 143 ELSE 191)

\* how many bytes after the one at i the decoder consumes with it
Utf8Matched(bytes, i) ==
    LET ks == { k \in 0..Utf8Needed(bytes[i]) : \A m \in 1..k : Utf8Fits(bytes, i, m) }
    IN  CHOOSE k \in ks : \A m \in ks : m <= k

\* the code units buf.toString('utf-8') yields for the byte at i: a complete
\* sequence decodes at its lead byte, an incomplete one yields one U+FFFD
\* there, the bytes consumed with a lead byte yield nothing, any other byte
\* outside ASCII yields U+FFFD
Utf16At(bytes, i) ==
    LET b == bytes[i]
        n == Utf8Needed(b)
    IN  IF b < 128 THEN << b >>
        ELSE IF n > 0 /\ Utf8Matched(bytes, i) < n THEN << 65533 >>
        ELSE IF n = 1 THEN << (b - 192) * 64 + (bytes[i + 1] - 128) >>
        ELSE IF n = 2
        THEN << (b - 224) * 4096 + (bytes[i + 1] - 128) * 64 + (bytes[i + 2] - 128) >>
        ELSE IF n = 3
        THEN LET cp == (b - 240) * 262144 + (bytes[i + 1] - 128) * 4096
                       + (bytes[i + 2] - 128) * 64 + (bytes[i + 3] - 128)
             IN  << 55296 + ((cp - 65536) \div 1024), 56320 + ((cp - 65536) % 1024) >>
        ELSE IF \E k \in 1..3 : i - k >= 1 /\ Utf8Matched(bytes, i - k) >= k
        THEN << >>
        ELSE << 65533 >>

RECURSIVE Utf16Range(_, _, _)
Utf16Range(bytes, lo, hi) ==
    IF lo > hi THEN << >>
    ELSE IF lo = hi THEN Utf16At(bytes, lo)
    ELSE LET mid == (lo + hi) \div 2
         IN  Utf16Range(bytes, lo, mid) \o Utf16Range(bytes, mid + 1, hi)

\* buf.toString('utf-8'): the string a byte sequence decodes to
Utf8Decode(bytes) == Utf16Range(bytes, 1, Len(bytes))

\* the base64 alphabet, in value order
Base64Alphabet == "ABCDEFGHIJKLMNOPQRSTUVWXYZabcdefghijklmnopqrstuvwxyz0123456789+/"

Base64Char(v) == SubSeq(Base64Alphabet, v + 1, v + 1)

\* the four characters for the (up to three) bytes at i, padded with "="
Base64Group(bytes, i) ==
    LET n  == Len(bytes) - i + 1
        b1 == bytes[i]
        b2 == IF n >= 2 THEN bytes[i + 1] ELSE 0
        b3 == IF n >= 3 THEN bytes[i + 2] ELSE 0
    IN  Base64Char(b1 \div 4)
        \o Base64Char((b1 % 4) * 16 + (b2 \div 16))
        \o (IF n >= 2 THEN Base64Char((b2 % 16) * 4 + (b3 \div 64)) ELSE "=")
        \o (IF n >= 3 THEN Base64Char(b3 % 64) ELSE "=")

\* groups lo..hi (each of three bytes) of the encoding
RECURSIVE Base64Range(_, _, _)
Base64Range(bytes, lo, hi) ==
    IF lo > hi THEN ""
    ELSE IF lo = hi THEN Base64Group(bytes, 3 * lo - 2)
    ELSE LET mid == (lo + hi) \div 2
         IN  Base64Range(bytes, lo, mid) \o Base64Range(bytes, mid + 1, hi)

\* buf.toString('base64'): standard alphabet, padded
Base64Encode(bytes) == Base64Range(bytes, 1, (Len(bytes) + 2) \div 3)

\* the value of a character: its place in the base64 alphabet, "-" and "_"
\* as "+" and "/", -1 for a character of neither alphabet
Base64Value ==
    [ ch \in DOMAIN CharCode |->
        IF ch = "-" THEN 62
        ELSE IF ch = "_" THEN 63
        ELSE IndexOf(Base64Alphabet, ch, 1) - 1 ]

\* Buffer.from(string, 'base64'): characters outside the alphabets (the
\* padding among them) carry no data; every full 8 bits make a byte
Base64Decode(str) ==
    LET values == [ i \in 1..Len(str) |-> Base64Value[SubSeq(str, i, i)] ]
        sx     == SelectSeq(values, LAMBDA v : v >= 0)
    IN  [ k \in 1..((Len(sx) * 6) \div 8) |->
            LET j == (((k - 1) * 8) \div 6) + 1
                r == ((k - 1) * 8) % 6
            IN  IF r = 0 THEN sx[j] * 4 + (sx[j + 1] \div 16)
                ELSE IF r = 2 THEN (sx[j] % 16) * 16 + (sx[j + 1] \div 4)
                ELSE (sx[j] % 4) * 64 + sx[j + 1] ]

\* Buffer.from(text).toString('base64')
Base64OfText(units) == Base64Encode(Utf8Encode(units))

\* String.prototype.replace with a global one-character pattern
RECURSIVE ReplaceAll(_, _, _)
ReplaceAll(str, from, to) ==
    IF Len(str) = 0 THEN ""
    ELSE IF Len(str) = 1 THEN (IF str = from THEN to ELSE str)
    ELSE LET mid == Len(str) \div 2
         IN  ReplaceAll(SubSeq(str, 1, mid), from, to)
             \o ReplaceAll(SubSeq(str, mid + 1, Len(str)), from, to)

\* .replace(/=+$/, '')
RECURSIVE StripPadding(_)
StripPadding(str) ==
    IF Len(str) > 0 /\ SubSeq(str, Len(str), Len(str)) = "="
    THEN StripPadding(SubSeq(str, 1, Len(str) - 1))
    ELSE str

encodeBase64Url(data) ==
    StripPadding(ReplaceAll(ReplaceAll(Base64OfText(data), "+", "-"), "/", "_"))

\* a variant that decodes the bytes as Latin-1
decodeBase64Url_Latin1(data) ==
    Base64Decode(ReplaceAll(ReplaceAll(data, "-", "+"), "_", "/"))

decodeBase64Url(data) ==
    Utf8Decode(Base64Decode(ReplaceAll(ReplaceAll(data, "-", "+"), "_", "/")))

----------------------------------------------------------------------------
(* buildRawEmail of the MCP server *)

\* Array.prototype.join
RECURSIVE Join(_, _)
Join(strs, sep) ==
    IF Len(strs) = 0 THEN ""
    ELSE IF Len(strs) = 1 THEN strs[1]
    ELSE LET mid == Len(strs) \div 2
         IN  Join(SubSeq(strs, 1, mid), sep) \o sep
             \o Join(SubSeq(strs, mid + 1, Len(strs)), sep)

\* the lines pushed for a text part
TextPart(subtype, text) ==
    << "Content-Type: text/" \o subtype \o "; charset=\"UTF-8\"",
       "Content-Transfer-Encoding: base64",
       "",
       Base64OfText(text) >>

\* the lines pushed for one attachment, after its opening delimiter
AttachmentPart(boundary, att) ==
    << "--" \o boundary,
       "Content-Type: " \o att.mimeType \o "; name=\"" \o att.filename \o "\"",
       "Content-Transfer-Encoding: base64",
       "Content-Disposition: attachment; filename=\"" \o att.filename \o "\"",
       "",
       att.content >>

RECURSIVE AttachmentParts(_, _)
AttachmentParts(boundary, attachments) ==
    IF attachments = << >> THEN << >>
    ELSE AttachmentPart(boundary, Head(attachments))
         \o AttachmentParts(boundary, Tail(attachments))

\* a variant that puts the HTML part first
AlternativeGroup_HtmlFirst(boundary, body, htmlBody) ==
    << "--" \o boundary >> \o TextPart("html", htmlBody)
    \o << "--" \o boundary >> \o TextPart("plain", body)
    \o << "--" \o boundary \o "--" >>

\* the text/plain part, the text/html part and the closing delimiter of a
\* multipart/alternative group, after its Content-Type header
AlternativeGroup(boundary, body, htmlBody) ==
    << "--" \o boundary >> \o TextPart("plain", body)
    \o << "--" \o boundary >> \o TextPart("html", htmlBody)
    \o << "--" \o boundary \o "--" >>

\* the header lines of a message. Absent to/from/inReplyTo/references are
\* "", absent cc/bcc are None: the code tests them for truthiness only
MailHeaders(options) ==
    << "To: " \o options.to >>
    \o (IF options.from # "" THEN << "From: " \o options.from >> ELSE << >>)
    \o (IF options.cc.present /\ Len(options.cc.v) > 0
        THEN << "Cc: " \o Join(options.cc.v, ", ") >> ELSE << >>)
    \o (IF options.bcc.present /\ Len(options.bcc.v) > 0
        THEN << "Bcc: " \o Join(options.bcc.v, ", ") >> ELSE << >>)
    \o << "Subject: =?UTF-8?B?" \o Base64OfText(CodeUnits(options.subject)) \o "?=" >>
    \o (IF options.inReplyTo # "" THEN << "In-Reply-To: " \o options.inReplyTo >>
        ELSE << >>)
    \o (IF options.references # "" THEN << "References: " \o options.references >>
        ELSE << >>)
    \o << "MIME-Version: 1.0" >>

\* the array lines at the return of buildRawEmail; now and altNow are the
\* values of the two Date.now() calls. body and htmlBody are code-unit
\* sequences, htmlBody << >> when absent or empty
MailLines(options, now, altNow) ==
    LET boundary    == "boundary_" \o ToDecimal(now)
        altBoundary == "alt_boundary_" \o ToDecimal(altNow)
    IN  MailHeaders(options) \o
        IF options.attachments.present /\ Len(options.attachments.v) > 0
        THEN << "Content-Type: multipart/mixed; boundary=\"" \o boundary \o "\"", "",
                "--" \o boundary >>
             \o (IF options.htmlBody # << >>
                 THEN << "Content-Type: multipart/alternative; boundary=\""
                         \o altBoundary \o "\"", "" >>
                      \o AlternativeGroup(altBoundary, options.body, options.htmlBody)
                 ELSE TextPart("plain", options.body))
             \o AttachmentParts(boundary, options.attachments.v)
             \o << "--" \o boundary \o "--" >>
        ELSE IF options.htmlBody # << >>
        THEN << "Content-Type: multipart/alternative; boundary=\"" \o boundary \o "\"",
                "" >>
             \o AlternativeGroup(boundary, options.body, options.htmlBody)
        ELSE TextPart("plain", options.body)

buildRawEmail(options, now, altNow) ==
    encodeBase64Url(CodeUnits(Join(MailLines(options, now, altNow), "\r\n")))

\* the array lines at the return of the webhook's buildRawEmail, called with
\* strings and an array of attachments; now is the value of its Date.now()
WebhookMailLines(options, now) ==
    LET boundary == "boundary_" \o ToDecimal(now)
    IN  << "To: " \o options.to,
           "Subject: =?UTF-8?B?" \o Base64OfText(CodeUnits(options.subject)) \o "?=",
           "MIME-Version: 1.0",
           "Content-Type: multipart/mixed; boundary=\"" \o boundary \o "\"",
           "",
           "--" \o boundary >>
        \o TextPart("plain", options.body)
        \o AttachmentParts(boundary, options.attachments)
        \o << "--" \o boundary \o "--" >>

WebhookRawEmail(options, now) ==
    encodeBase64Url(CodeUnits(Join(WebhookMailLines(options, now), "\r\n")))

----------------------------------------------------------------------------
(* Authentication of the MCP tools *)

\* new URLSearchParams(query).get(name): the value of the first name=value
\* segment with that name, null when there is none
RECURSIVE ParamsGet(_, _)
ParamsGet(query, name) ==
    IF query = "" THEN Null
    ELSE LET amp  == IndexOf(query, "&", 1)
             seg  == IF amp = 0 THEN query ELSE SubSeq(query, 1, amp - 1)
             rest == IF amp = 0 THEN "" ELSE SubSeq(query, amp + 1, Len(query))
             eq   == IndexOf(seg, "=", 1)
             key  == IF eq = 0 THEN seg ELSE SubSeq(seg, 1, eq - 1)
             val  == IF eq = 0 THEN "" ELSE SubSeq(seg, eq + 1, Len(seg))
         IN  IF seg # "" /\ key = name THEN JStr(val) ELSE ParamsGet(rest, name)

ErrNoGmailHeader == "Gmail MCP requires OAuth credentials."
ErrMissingCredentials ==
    "Missing required credentials: client_id, client_secret, and refresh_token"

Thrown(message) ==
    [ok |-> FALSE, error |-> message,
     clientId |-> "", clientSecret |-> "", refreshToken |-> ""]

\* a variant that does not look at refresh_token
getCredentials_NoTokenCheck(authHeader) ==
    IF ~(authHeader.t = "string" /\ StartsWith(authHeader.s, "GMAIL "))
    THEN Thrown(ErrNoGmailHeader)
    ELSE LET params       == SubSeq(authHeader.s, SchemeLen + 1, Len(authHeader.s))
             clientId     == ParamsGet(params, "client_id")
             clientSecret == ParamsGet(params, "client_secret")
             refreshToken == ParamsGet(params, "refresh_token")
         IN  IF ~Truthy(clientId) \/ ~Truthy(clientSecret)
             THEN Thrown(ErrMissingCredentials)
             ELSE [ok |-> TRUE, error |-> "", clientId |-> clientId.s,
                   clientSecret |-> clientSecret.s, refreshToken |-> refreshToken.s]

getCredentials(authHeader) ==
    IF ~(authHeader.t = "string" /\ StartsWith(authHeader.s, "GMAIL "))
    THEN Thrown(ErrNoGmailHeader)
    ELSE LET params       == SubSeq(authHeader.s, SchemeLen + 1, Len(authHeader.s))
             clientId     == ParamsGet(params, "client_id")
             clientSecret == ParamsGet(params, "client_secret")
             refreshToken == ParamsGet(params, "refresh_token")
         IN  IF ~Truthy(clientId) \/ ~Truthy(clientSecret) \/ ~Truthy(refreshToken)
             THEN Thrown(ErrMissingCredentials)
             ELSE [ok |-> TRUE, error |-> "", clientId |-> clientId.s,
                   clientSecret |-> clientSecret.s, refreshToken |-> refreshToken.s]

\* the provider client: the OAuth2 credentials every call it makes is signed with
NoClient == [clientId |-> "", clientSecret |-> "", refreshToken |-> ""]
GmailClient(creds) ==
    [clientId |-> creds.clientId, clientSecret |-> creds.clientSecret,
     refreshToken |-> creds.refreshToken]

----------------------------------------------------------------------------
(* Responses and provider outcomes *)

NoResponse == [isError |-> FALSE, text |-> "", json |-> <<>>]
McpText(text) == [isError |-> FALSE, text |-> text, json |-> <<>>]
\* JSON.stringify(value, null, 2): the text carries the value
McpJson(value) == [isError |-> FALSE, text |-> "json", json |-> value]
\* a throw inside a tool handler reaches the caller as one error payload
McpError(message) == [isError |-> TRUE, text |-> message, json |-> <<>>]

\* NextResponse.json(body, {status})
HttpJson(status, ok, error, messageId) ==
    [status |-> status, ok |-> ok, error |-> error, messageId |-> messageId]

\* failure reasons the provider gives
ProviderErrors == {"Invalid id value", "Rate Limit Exceeded"}
\* identifiers the provider assigns to what it creates
ProviderIds == {"id-1", "id-2"}

Failure(message) == [ok |-> FALSE, error |-> message]
Success == [ok |-> TRUE, error |-> ""]
Outcomes == {Success} \cup {Failure(m) : m \in ProviderErrors}

\* one outbound call, as logged: the method, the client's credentials, the request
Call(api, req, outcome) ==
    [api |-> api, auth |-> gmail, req |-> req, ok |-> outcome.ok, error |-> outcome.error]

----------------------------------------------------------------------------
(* The requests the model receives *)

\* Authorization headers of MCP requests
McpHeaders ==
    { Null,
      JStr("Bearer abc"),
      JStr("GMAIL"),
      JStr("gmail client_id=a&client_secret=b&refresh_token=c"),
      JStr("GMAIL client_id=a&client_secret=b&refresh_token=c"),
      JStr("GMAIL refresh_token=z&client_secret=y&client_id=x"),
      JStr("GMAIL client_secret=b&refresh_token=c"),
      JStr("GMAIL client_id=a&client_secret=&refresh_token=c"),
      JStr("GMAIL client_id=a&client_secret=b"),
      JStr("GMAIL client_id=a&client_secret=b&refresh_token") }

\* an optional array argument: absent, or present with its elements
None == [present |-> FALSE, v |-> <<>>]
Some(seq) == [present |-> TRUE, v |-> seq]

\* messageIds of a batch request: n identifiers, all different or repeating
IdLists ==
    { [i \in 1..n |-> ToDecimal(i)] : n \in 0..MaxIds } \cup
    { [i \in 1..n |-> ToDecimal(i % 3)] : n \in 0..MaxIds }

LabelLists == { None, Some(<<>>), Some(<<"Label_1">>), Some(<<"Label_1", "Label_2">>) }

OneCallTools ==
    { "send_email", "read_email", "delete_email", "trash_email", "modify_email",
      "list_attachments", "download_attachment", "create_draft", "send_draft",
      "delete_draft", "list_labels", "create_label", "update_label", "delete_label",
      "list_filters", "delete_filter", "get_thread" }

McpTools ==
    OneCallTools \cup
    { "search_emails", "list_drafts", "batch_modify_emails", "batch_delete_emails",
      "create_filter", "reply_to_email" }

\* the values Date.now() returns while a message is encoded
Clock == { 1000, 1001 }

\* attachments a caller supplies: content is any string, by convention the
\* base64 of the file; the third one's content is a line of its own choosing
Attachments ==
    { [filename |-> "a.pdf", mimeType |-> "application/pdf", content |-> "QUJD"],
      [filename |-> "b.png", mimeType |-> "image/png", content |-> "REVG"],
      [filename |-> "c.txt", mimeType |-> "text/plain", content |-> "--boundary_1000"] }

AttachmentLists == UNION { [1..n -> Attachments] : n \in 0..MaxAttachments }

\* plain-text bodies, as code units: "hello", and "c" followed by U+20AC
MailBodies == { CodeUnits("hello"), << 99, 8364 >> }
\* HTML bodies: absent, or given
HtmlBodies == { << >>, CodeUnits("<p>hello</p>") }

\* the options of a buildRawEmail call that names none of the optional ones
NoOptions ==
    [to |-> "", subject |-> "", body |-> << >>, htmlBody |-> << >>, cc |-> None,
     bcc |-> None, from |-> "", inReplyTo |-> "", references |-> "",
     attachments |-> None]

\* the arguments a tool is called with (the schema has already accepted them)
ToolArgs(t) ==
    CASE t = "send_email" ->
           { [to |-> "a@b.com", subject |-> "Hi", body |-> b, htmlBody |-> h,
              cc |-> None, bcc |-> None, threadId |-> th, attachments |-> atts]
               : b \in {CodeUnits("hello")}, h \in HtmlBodies,
                 th \in {Undefined, JStr("t1")},
                 atts \in {None, Some(<<[filename |-> "a.pdf",
                                         mimeType |-> "application/pdf",
                                         content  |-> "QUJD"]>>)} }
      [] t \in {"read_email", "delete_email", "trash_email", "list_attachments"} ->
           { [messageId |-> "m1"] }
      [] t = "modify_email" ->
           { [messageId |-> "m1", addLabels |-> Some(<<"STARRED">>), removeLabels |-> None] }
      [] t = "download_attachment" ->
           { [messageId |-> "m1", attachmentId |-> "att1"] }
      [] t = "create_draft" ->
           { [to |-> "a@b.com", subject |-> "Hi", body |-> b, htmlBody |-> h,
              cc |-> cc, bcc |-> None]
               : b \in {CodeUnits("hello")}, h \in HtmlBodies,
                 cc \in {None, Some(<<"c@x.com", "d@x.com">>)} }
      [] t \in {"send_draft", "delete_draft"} ->
           { [draftId |-> "d1"] }
      [] t \in {"list_labels", "list_filters"} ->
           { [none |-> TRUE] }
      [] t = "create_label" ->
           { [name |-> "Work", messageListVisibility |-> Undefined,
              labelListVisibility |-> Undefined] }
      [] t = "update_label" ->
           { [labelId |-> "Label_1", name |-> JStr("Work")] }
      [] t = "delete_label" ->
           { [labelId |-> "Label_1"] }
      [] t = "delete_filter" ->
           { [filterId |-> "f1"] }
      [] t = "get_thread" ->
           { [threadId |-> "t1"] }
      [] t = "search_emails" ->
           { [query |-> "is:unread", maxResults |-> m]
               : m \in {Undefined, JNum(0), JNum(5), JNum(100), JNum(101), JNum(500)} }
      [] t = "list_drafts" ->
           { [maxResults |-> m] : m \in {Undefined, JNum(0), JNum(5)} }
      [] t = "batch_modify_emails" ->
           { [messageIds |-> ids, addLabels |-> Some(<<"STARRED">>), removeLabels |-> None]
               : ids \in IdLists }
      [] t = "batch_delete_emails" ->
           { [messageIds |-> ids] : ids \in IdLists }
      [] t = "create_filter" ->
           { [from |-> "boss@x.com", addLabelIds |-> add, removeLabelIds |-> rem,
              star |-> st, markImportant |-> mi, markRead |-> mr, archive |-> ar,
              trash |-> tr]
               : add \in LabelLists, rem \in LabelLists,
                 st \in BOOLEAN, mi \in BOOLEAN, mr \in BOOLEAN, ar \in BOOLEAN,
                 tr \in BOOLEAN }
      [] t = "reply_to_email" ->
           { [messageId |-> "m1", body |-> CodeUnits("thanks"), replyAll |-> ra]
               : ra \in BOOLEAN }

NoEnv ==
    [WEBHOOK_SECRET |-> Undefined, GMAIL_CLIENT_ID |-> Undefined,
     GMAIL_CLIENT_SECRET |-> Undefined, GMAIL_REFRESH_TOKEN |-> Undefined]
NoLocal == [none |-> TRUE]

Init ==
    /\ pc = "idle"
    /\ tool = "none"
    /\ authorization = Null
    /\ env = NoEnv
    /\ args = [none |-> TRUE]
    /\ gmail = NoClient
    /\ local = NoLocal
    /\ calls = <<>>
    /\ response = NoResponse

\* the response has gone out: nothing of the request is kept
EndRequest ==
    /\ pc = "done"
    /\ pc' = "idle"
    /\ tool' = "none"
    /\ authorization' = Null
    /\ env' = NoEnv
    /\ args' = [none |-> TRUE]
    /\ gmail' = NoClient
    /\ local' = NoLocal
    /\ calls' = <<>>
    /\ response' = NoResponse

\* an MCP request arrives: the tool's handler starts with await getGmailClient()
ReceiveMcp ==
    /\ pc = "idle"
    /\ \E t \in McpTools :
         /\ tool' = t
         /\ \E h \in McpHeaders : authorization' = h
         /\ \E a \in ToolArgs(t) : args' = a
    /\ pc' = "client"
    /\ env' = NoEnv
    /\ gmail' = NoClient
    /\ local' = NoLocal
    /\ calls' = <<>>
    /\ response' = NoResponse

\* getGmailClient(): the credentials of this request's header, or a throw
GetGmailClient ==
    /\ pc = "client"
    /\ LET creds == getCredentials(authorization)
       IN  IF creds.ok
           THEN /\ gmail' = GmailClient(creds)
                /\ pc' = "call"
                /\ UNCHANGED response
           ELSE /\ response' = McpError(creds.error)
                /\ pc' = "done"
                /\ UNCHANGED gmail
    /\ UNCHANGED <<tool, authorization, env, args, local, calls>>

\* the handler's single provider call returns or throws, and the handler ends
Finish(call, result) ==
    /\ calls' = Append(calls, call)
    /\ response' = IF call.ok THEN result ELSE McpError(call.error)
    /\ pc' = "done"
    /\ UNCHANGED <<tool, authorization, env, args, gmail, local>>

----------------------------------------------------------------------------
(* Tools that make one provider call *)

\* the call carries raw, and with it (as message) the options raw was built
\* from; the second Date.now() of buildRawEmail is not before the first
send_email ==
    /\ pc = "call" /\ tool = "send_email"
    /\ \E now \in Clock, altNow \in Clock :
         /\ now <= altNow
         /\ LET options == [NoOptions EXCEPT !.to = args.to, !.subject = args.subject,
                                             !.body = args.body,
                                             !.htmlBody = args.htmlBody,
                                             !.cc = args.cc, !.bcc = args.bcc,
                                             !.attachments = args.attachments]
            IN  \E raw \in { buildRawEmail(options, now, altNow) },
                   out \in Outcomes, id \in ProviderIds :
                  Finish(Call("users.messages.send",
                              [message |-> options, raw |-> raw,
                               threadId |-> IF Truthy(args.threadId) THEN args.threadId
                                            ELSE Undefined],
                              out),
                         McpText("Email sent successfully. Message ID: " \o id))

delete_email ==
    /\ pc = "call" /\ tool = "delete_email"
    /\ \E out \in Outcomes :
         Finish(Call("users.messages.delete", [id |-> args.messageId], out),
                McpText("Email " \o args.messageId \o " permanently deleted."))

trash_email ==
    /\ pc = "call" /\ tool = "trash_email"
    /\ \E out \in Outcomes :
         Finish(Call("users.messages.trash", [id |-> args.messageId], out),
                McpText("Email " \o args.messageId \o " moved to trash."))

modify_email ==
    /\ pc = "call" /\ tool = "modify_email"
    /\ \E out \in Outcomes :
         Finish(Call("users.messages.modify",
                     [id |-> args.messageId, addLabelIds |-> args.addLabels,
                      removeLabelIds |-> args.removeLabels],
                     out),
                McpText("Email modified. Labels: "))

\* a response without data is thrown as an error after the call has returned
download_attachment ==
    /\ pc = "call" /\ tool = "download_attachment"
    /\ \E out \in Outcomes, hasData \in BOOLEAN :
         /\ calls' = Append(calls, Call("users.messages.attachments.get",
                                        [messageId |-> args.messageId,
                                         id |-> args.attachmentId], out))
         /\ response' = IF ~out.ok THEN McpError(out.error)
                        ELSE IF ~hasData THEN McpError("No attachment data returned")
                        ELSE McpJson(<<args.attachmentId>>)
    /\ pc' = "done"
    /\ UNCHANGED <<tool, authorization, env, args, gmail, local>>

create_draft ==
    /\ pc = "call" /\ tool = "create_draft"
    /\ \E now \in Clock, altNow \in Clock :
         /\ now <= altNow
         /\ LET options == [NoOptions EXCEPT !.to = args.to, !.subject = args.subject,
                                             !.body = args.body,
                                             !.htmlBody = args.htmlBody,
                                             !.cc = args.cc, !.bcc = args.bcc]
            IN  \E raw \in { buildRawEmail(options, now, altNow) },
                   out \in Outcomes, id \in ProviderIds :
                  Finish(Call("users.drafts.create",
                              [message |-> options, raw |-> raw], out),
                         McpText("Draft created. Draft ID: " \o id))

send_draft ==
    /\ pc = "call" /\ tool = "send_draft"
    /\ \E out \in Outcomes, id \in ProviderIds :
         Finish(Call("users.drafts.send", [id |-> args.draftId], out),
                McpText("Draft sent. Message ID: " \o id))

delete_draft ==
    /\ pc = "call" /\ tool = "delete_draft"
    /\ \E out \in Outcomes :
         Finish(Call("users.drafts.delete", [id |-> args.draftId], out),
                McpText("Draft " \o args.draftId \o " deleted."))

list_labels ==
    /\ pc = "call" /\ tool = "list_labels"
    /\ \E out \in Outcomes :
         Finish(Call("users.labels.list", [userId |-> "me"], out), McpJson(<<>>))

create_label ==
    /\ pc = "call" /\ tool = "create_label"
    /\ \E out \in Outcomes, id \in ProviderIds :
         Finish(Call("users.labels.create",
                     [name |-> args.name,
                      messageListVisibility |->
                          IF Truthy(args.messageListVisibility)
                          THEN args.messageListVisibility.s ELSE "show",
                      labelListVisibility |->
                          IF Truthy(args.labelListVisibility)
                          THEN args.labelListVisibility.s ELSE "labelShow"],
                     out),
                McpText("Label created: " \o args.name \o " (ID: " \o id \o ")"))

update_label ==
    /\ pc = "call" /\ tool = "update_label"
    /\ \E out \in Outcomes :
         Finish(Call("users.labels.update",
                     [id |-> args.labelId,
                      name |-> IF Truthy(args.name) THEN args.name ELSE Undefined],
                     out),
                McpText("Label updated: " \o args.name.s))

delete_label ==
    /\ pc = "call" /\ tool = "delete_label"
    /\ \E out \in Outcomes :
         Finish(Call("users.labels.delete", [id |-> args.labelId], out),
                McpText("Label " \o args.labelId \o " deleted."))

list_filters ==
    /\ pc = "call" /\ tool = "list_filters"
    /\ \E out \in Outcomes :
         Finish(Call("users.settings.filters.list", [userId |-> "me"], out), McpJson(<<>>))

delete_filter ==
    /\ pc = "call" /\ tool = "delete_filter"
    /\ \E out \in Outcomes :
         Finish(Call("users.settings.filters.delete", [id |-> args.filterId], out),
                McpText("Filter " \o args.filterId \o " deleted."))

get_thread ==
    /\ pc = "call" /\ tool = "get_thread"
    /\ \E out \in Outcomes :
         Finish(Call("users.threads.get", [id |-> args.threadId, format |-> "full"], out),
                McpJson(<<>>))

----------------------------------------------------------------------------
(* Batch tools *)

\* a variant that forwards the whole list
BatchIds_NoCap(messageIds) == messageIds

\* const ids = messageIds.slice(0, 50)
BatchIds(messageIds) == SliceTo(messageIds, BatchCap)

batch_modify_emails ==
    /\ pc = "call" /\ tool = "batch_modify_emails"
    /\ LET ids == BatchIds(args.messageIds)
       IN  \E out \in Outcomes :
             Finish(Call("users.messages.batchModify",
                         [ids |-> ids, addLabelIds |-> args.addLabels,
                          removeLabelIds |-> args.removeLabels],
                         out),
                    McpText("Batch modified " \o ToDecimal(Len(ids)) \o " emails."))

batch_delete_emails ==
    /\ pc = "call" /\ tool = "batch_delete_emails"
    /\ LET ids == BatchIds(args.messageIds)
       IN  \E out \in Outcomes :
             Finish(Call("users.messages.batchDelete", [ids |-> ids], out),
                    McpText("Batch deleted " \o ToDecimal(Len(ids)) \o " emails."))

----------------------------------------------------------------------------
(* Filters *)

\* a variant in which archive replaces the remove-set instead of extending it
FilterAction_ArchiveOverwrites(a) ==
    LET removeIds == IF a.archive THEN <<"INBOX">>
                     ELSE a.removeLabelIds.v \o (IF a.markRead THEN <<"UNREAD">> ELSE <<>>)
        addIds    == a.addLabelIds.v
                       \o (IF a.star THEN <<"STARRED">> ELSE <<>>)
                       \o (IF a.markImportant THEN <<"IMPORTANT">> ELSE <<>>)
    IN  [addLabelIds    |-> IF Len(addIds) > 0 THEN Some(addIds) ELSE a.addLabelIds,
         removeLabelIds |-> IF Len(removeIds) > 0 THEN Some(removeIds)
                            ELSE a.removeLabelIds]

\* the action object of create_filter: the explicit label lists, then the
\* boolean shorthands, each assignment in the order the handler makes it
FilterAction(a) ==
    LET removeIds == a.removeLabelIds.v
                       \o (IF a.markRead THEN <<"UNREAD">> ELSE <<>>)
                       \o (IF a.archive THEN <<"INBOX">> ELSE <<>>)
        \* if (trash) action.addLabelIds = [...(addLabelIds || []), 'TRASH']
        afterTrash == IF a.trash THEN Some(a.addLabelIds.v \o <<"TRASH">>)
                      ELSE a.addLabelIds
        addIds    == a.addLabelIds.v
                       \o (IF a.star THEN <<"STARRED">> ELSE <<>>)
                       \o (IF a.markImportant THEN <<"IMPORTANT">> ELSE <<>>)
    IN  [\* if (addIds.length) action.addLabelIds = addIds
         addLabelIds    |-> IF Len(addIds) > 0 THEN Some(addIds) ELSE afterTrash,
         \* if (removeIds.length) action.removeLabelIds = removeIds
         removeLabelIds |-> IF Len(removeIds) > 0 THEN Some(removeIds)
                            ELSE a.removeLabelIds]

create_filter ==
    /\ pc = "call" /\ tool = "create_filter"
    /\ \E out \in Outcomes, id \in ProviderIds :
         Finish(Call("users.settings.filters.create",
                     [criteria |-> [from |-> args.from], action |-> FilterAction(args)],
                     out),
                McpText("Filter created. ID: " \o id))

----------------------------------------------------------------------------
(* Message headers *)

\* one character of String.prototype.toLowerCase
LowerChar(ch) ==
    LET i == IndexOf("ABCDEFGHIJKLMNOPQRSTUVWXYZ", ch, 1)
    IN  IF i = 0 THEN ch ELSE SubSeq("abcdefghijklmnopqrstuvwxyz", i, i)

RECURSIVE ToLowerCase(_)
ToLowerCase(str) ==
    IF str = "" THEN ""
    ELSE LowerChar(SubSeq(str, 1, 1)) \o ToLowerCase(SubSeq(str, 2, Len(str)))

\* a variant that compares the names as they are written
RECURSIVE getHeader_CaseSensitive(_, _)
getHeader_CaseSensitive(headers, name) ==
    IF Len(headers) = 0 THEN ""
    ELSE LET h == Head(headers)
         IN  IF h.name.t = "string" /\ h.name.s = name
             THEN (IF Truthy(h.value) THEN h.value.s ELSE "")
             ELSE getHeader_CaseSensitive(Tail(headers), name)

\* headers.find(h => h.name?.toLowerCase() === name.toLowerCase())?.value || ''
RECURSIVE getHeader(_, _)
getHeader(headers, name) ==
    IF Len(headers) = 0 THEN ""
    ELSE LET h == Head(headers)
         IN  IF h.name.t = "string" /\ ToLowerCase(h.name.s) = ToLowerCase(name)
             THEN (IF Truthy(h.value) THEN h.value.s ELSE "")
             ELSE getHeader(Tail(headers), name)

Hdr(name, value) == [name |-> JStr(name), value |-> JStr(value)]

----------------------------------------------------------------------------
(* parseMessage and read_email *)

\* a part of a fetched message as parseMessage reads it; data "" stands for
\* an absent (or empty) body.data
BodyPart(mimeType, data) == [mimeType |-> mimeType, body |-> [data |-> data]]

\* a variant that prefers the HTML part
parseBody_HtmlFirst(payload) ==
    IF ~payload.present THEN << >>
    ELSE IF payload.parts.present
    THEN LET parts == payload.parts.v
             texts == { i \in 1..Len(parts) : parts[i].mimeType = "text/plain" }
             htmls == { i \in 1..Len(parts) : parts[i].mimeType = "text/html" }
             found == IF htmls # {} THEN htmls ELSE texts
         IN  IF found = {} THEN << >>
             ELSE LET part == parts[CHOOSE i \in found : \A j \in found : i <= j]
                  IN  IF part.body.data # "" THEN decodeBase64Url(part.body.data)
                      ELSE << >>
    ELSE IF payload.body.data # "" THEN decodeBase64Url(payload.body.data)
    ELSE << >>

\* the value of body at the return of parseMessage, as code units: find
\* returns the first part of the type, textPart || htmlPart the plain one
\* when there is one
parseBody(payload) ==
    IF ~payload.present THEN << >>
    ELSE IF payload.parts.present
    THEN LET parts == payload.parts.v
             texts == { i \in 1..Len(parts) : parts[i].mimeType = "text/plain" }
             htmls == { i \in 1..Len(parts) : parts[i].mimeType = "text/html" }
             found == IF texts # {} THEN texts ELSE htmls
         IN  IF found = {} THEN << >>
             ELSE LET part == parts[CHOOSE i \in found : \A j \in found : i <= j]
                  IN  IF part.body.data # "" THEN decodeBase64Url(part.body.data)
                      ELSE << >>
    ELSE IF payload.body.data # "" THEN decodeBase64Url(payload.body.data)
    ELSE << >>

\* headers is None when payload.headers is absent, snippet "" and labelIds
\* << >> when the message has none
parseMessage(message) ==
    LET payload    == message.payload
        msgHeaders == IF payload.present /\ payload.headers.present
                      THEN payload.headers.v ELSE << >>
    IN  [id       |-> message.id,
         threadId |-> message.threadId,
         from     |-> getHeader(msgHeaders, "From"),
         to       |-> getHeader(msgHeaders, "To"),
         subject  |-> getHeader(msgHeaders, "Subject"),
         date     |-> getHeader(msgHeaders, "Date"),
         snippet  |-> message.snippet,
         body     |-> parseBody(payload),
         labels   |-> message.labelIds]

Payload(headers, parts, data) ==
    [present |-> TRUE, headers |-> headers, parts |-> parts, body |-> [data |-> data]]

NoPayload ==
    [present |-> FALSE, headers |-> None, parts |-> None, body |-> [data |-> ""]]

Message(payload) ==
    [id |-> "m1", threadId |-> "t1", snippet |-> "hel", labelIds |-> <<"INBOX">>,
     payload |-> payload]

\* headers the provider returns: the name or the value may be null
FetchedHeaders ==
    { [name |-> n, value |-> v]
        : n \in { JStr("Subject"), JStr("SUBJECT"), JStr("from"), JStr("To"),
                  JStr("DATE"), JStr("X-Subject"), Null },
          v \in { JStr("one"), JStr("two"), JStr(""), Null } }

FetchedHeaderLists == UNION { [1..n -> FetchedHeaders] : n \in 0..MaxHeaders }

\* the parts of a fetched message's payload: plain and HTML parts with and
\* without data, and a part of another type
FetchedBodyParts ==
    { BodyPart("text/plain", encodeBase64Url(CodeUnits("plain"))),
      BodyPart("text/plain", encodeBase64Url(<< 99, 8364 >>)),
      BodyPart("text/plain", ""),
      BodyPart("text/html", encodeBase64Url(CodeUnits("<b>html</b>"))),
      BodyPart("text/html", ""),
      BodyPart("application/pdf", "QUJD") }

\* the provider leaves an empty parts array out of its answer
FetchedPartLists == UNION { [1..n -> FetchedBodyParts] : n \in 1..MaxParts }

\* what the full fetch of a message returns
FetchedMessages ==
    { Message(NoPayload) }
    \cup { Message(Payload(None, None, d))
             : d \in { "", encodeBase64Url(CodeUnits("top")) } }
    \cup { Message(Payload(Some(hs), None, encodeBase64Url(CodeUnits("top"))))
             : hs \in FetchedHeaderLists }
    \cup { Message(Payload(Some(<<Hdr("Subject", "Hi")>>), Some(ps), d))
             : ps \in FetchedPartLists, d \in { "", encodeBase64Url(CodeUnits("top")) } }

read_email ==
    /\ pc = "call" /\ tool = "read_email"
    /\ \E out \in Outcomes :
         LET call == Call("users.messages.get",
                          [id |-> args.messageId, format |-> "full"], out)
         IN  IF ~out.ok
             THEN /\ calls' = Append(calls, call)
                  /\ response' = McpError(call.error)
                  /\ pc' = "done"
                  /\ UNCHANGED <<tool, authorization, env, args, gmail, local>>
             ELSE \E message \in FetchedMessages :
                    /\ calls' = Append(calls, call)
                    /\ local' = [message |-> message]
                    /\ response' = McpJson(parseMessage(message))
                    /\ pc' = "done"
                    /\ UNCHANGED <<tool, authorization, env, args, gmail>>

----------------------------------------------------------------------------
(* Listing tools: one listing call, then one detail call per item *)

ItemIds == {"m1", "m2"}
\* what a listing call returns: up to MaxItems item identifiers
ItemLists == UNION { [1..n -> ItemIds] : n \in 0..MaxItems }
\* the header list a metadata fetch returns (absent payload: no headers)
MetadataHeaders == { <<>>, <<Hdr("subject", "hello"), Hdr("Subject", "second")>> }

Abort(call) ==
    /\ calls' = Append(calls, call)
    /\ response' = McpError(call.error)
    /\ pc' = "done"
    /\ UNCHANGED <<tool, authorization, env, args, gmail, local>>

\* a variant of the loop that walks the listing from its end
NextItem_Reversed(items, i) == items[Len(items) + 1 - i]

\* for (const msg of messages): the item of the i-th turn of the loop
NextItem(items, i) == items[i]

\* a variant that forwards the caller's maxResults without the ceiling
SearchLimit_NoCap(maxResults) ==
    IF Truthy(maxResults) THEN maxResults.n ELSE DefaultMaxResults

\* Math.min(maxResults || 10, 100)
SearchLimit(maxResults) ==
    Min(IF Truthy(maxResults) THEN maxResults.n ELSE DefaultMaxResults, SearchMaxResults)

\* search_emails up to the end of its listing call
SearchList ==
    /\ pc = "call" /\ tool = "search_emails"
    /\ \E out \in Outcomes :
         LET call == Call("users.messages.list",
                          [q |-> args.query, maxResults |-> SearchLimit(args.maxResults)],
                          out)
         IN  IF ~out.ok THEN Abort(call)
             ELSE \E messages \in ItemLists :
                    /\ calls' = Append(calls, call)
                    /\ IF Len(messages) = 0
                       THEN /\ response' = McpText("No emails found matching your query.")
                            /\ pc' = "done"
                            /\ local' = [messages |-> messages, i |-> 1, results |-> <<>>]
                       ELSE /\ local' = [messages |-> messages, i |-> 1, results |-> <<>>]
                            /\ pc' = "detail"
                            /\ UNCHANGED response
                    /\ UNCHANGED <<tool, authorization, env, args, gmail>>

\* a variant of the loop body that skips an item whose fetch failed
SearchDetail_SkipFailed ==
    /\ pc = "detail" /\ tool = "search_emails"
    /\ \E out \in Outcomes, headers \in MetadataHeaders :
         LET id      == local.messages[local.i]
             call    == Call("users.messages.get", [id |-> id, format |-> "metadata"], out)
             results == IF out.ok
                        THEN Append(local.results,
                                    [id |-> id, subject |-> getHeader(headers, "Subject")])
                        ELSE local.results
         IN  /\ calls' = Append(calls, call)
             /\ IF local.i = Len(local.messages)
                THEN /\ response' = McpJson(results)
                     /\ pc' = "done"
                     /\ UNCHANGED local
                ELSE /\ local' = [local EXCEPT !.i = @ + 1, !.results = results]
                     /\ UNCHANGED <<pc, response>>
             /\ UNCHANGED <<tool, authorization, env, args, gmail>>

\* one turn of search_emails' loop: the detail call for the next message
SearchDetail ==
    /\ pc = "detail" /\ tool = "search_emails"
    /\ \E out \in Outcomes, headers \in MetadataHeaders :
         LET id      == NextItem(local.messages, local.i)
             call    == Call("users.messages.get", [id |-> id, format |-> "metadata"], out)
             results == Append(local.results,
                               [id |-> id, subject |-> getHeader(headers, "Subject")])
         IN  IF ~out.ok THEN Abort(call)
             ELSE /\ calls' = Append(calls, call)
                  /\ IF local.i = Len(local.messages)
                     THEN /\ response' = McpJson(results)
                          /\ pc' = "done"
                          /\ UNCHANGED local
                     ELSE /\ local' = [local EXCEPT !.i = @ + 1, !.results = results]
                          /\ UNCHANGED <<pc, response>>
                  /\ UNCHANGED <<tool, authorization, env, args, gmail>>

\* list_drafts up to the end of its listing call
DraftsList ==
    /\ pc = "call" /\ tool = "list_drafts"
    /\ \E out \in Outcomes :
         LET call == Call("users.drafts.list",
                          [maxResults |-> IF Truthy(args.maxResults) THEN args.maxResults.n
                                          ELSE DefaultMaxResults],
                          out)
         IN  IF ~out.ok THEN Abort(call)
             ELSE \E drafts \in ItemLists :
                    /\ calls' = Append(calls, call)
                    /\ IF Len(drafts) = 0
                       THEN /\ response' = McpText("No drafts found.")
                            /\ pc' = "done"
                            /\ local' = [messages |-> drafts, i |-> 1, results |-> <<>>]
                       ELSE /\ local' = [messages |-> drafts, i |-> 1, results |-> <<>>]
                            /\ pc' = "detail"
                            /\ UNCHANGED response
                    /\ UNCHANGED <<tool, authorization, env, args, gmail>>

\* one turn of list_drafts' loop: the detail call for the next draft
DraftsDetail ==
    /\ pc = "detail" /\ tool = "list_drafts"
    /\ \E out \in Outcomes, headers \in MetadataHeaders :
         LET id      == NextItem(local.messages, local.i)
             call    == Call("users.drafts.get", [id |-> id, format |-> "metadata"], out)
             results == Append(local.results,
                               [id |-> id, subject |-> getHeader(headers, "Subject")])
         IN  IF ~out.ok THEN Abort(call)
             ELSE /\ calls' = Append(calls, call)
                  /\ IF local.i = Len(local.messages)
                     THEN /\ response' = McpJson(results)
                          /\ pc' = "done"
                          /\ UNCHANGED local
                     ELSE /\ local' = [local EXCEPT !.i = @ + 1, !.results = results]
                          /\ UNCHANGED <<pc, response>>
                  /\ UNCHANGED <<tool, authorization, env, args, gmail>>

----------------------------------------------------------------------------
(* list_attachments *)

\* a message part: filename "" and attachmentId "" stand for an absent (or
\* empty) field, mimeType "" for an absent one, parts <<>> for no sub-parts
Part(filename, attachmentId, mimeType, size, parts) ==
    [filename |-> filename, mimeType |-> mimeType,
     body |-> [attachmentId |-> attachmentId, size |-> size], parts |-> parts]

\* the parts the provider returns, without their sub-parts: two attachments,
\* an inline part with an attachmentId but no filename, a named part without
\* an attachmentId
PartKinds ==
    { [filename |-> "a.pdf", attachmentId |-> "A", mimeType |-> "application/pdf", size |-> 7],
      [filename |-> "b",     attachmentId |-> "B", mimeType |-> "",                size |-> 0],
      [filename |-> "",      attachmentId |-> "C", mimeType |-> "image/png",       size |-> 3],
      [filename |-> "c.txt", attachmentId |-> "",  mimeType |-> "text/plain",      size |-> 2] }

\* every part list (siblings in array order, each with its sub-parts) of
\* exactly n parts in all
RECURSIVE PartLists(_)
PartLists(n) ==
    IF n = 0 THEN { <<>> }
    ELSE UNION { { <<Part(k.filename, k.attachmentId, k.mimeType, k.size, sub)>> \o rest
                     : k \in PartKinds, sub \in PartLists(m), rest \in PartLists(n - 1 - m) }
                 : m \in 0..(n - 1) }

\* result.data.payload of the full fetch: absent, without parts, or with a
\* part tree of up to MaxParts parts
AttachmentPayloads ==
    { [present |-> FALSE, parts |-> None], [present |-> TRUE, parts |-> None] } \cup
    { [present |-> TRUE, parts |-> Some(f)]
        : f \in UNION { PartLists(n) : n \in 0..MaxParts } }

\* a variant that looks at the top-level parts only
RECURSIVE findAttachments_TopLevelOnly(_)
findAttachments_TopLevelOnly(parts) ==
    IF parts = <<>> THEN <<>>
    ELSE LET part == Head(parts)
             own  == IF part.filename # "" /\ part.body.attachmentId # ""
                     THEN << [id |-> part.body.attachmentId, filename |-> part.filename,
                              mimeType |-> IF part.mimeType # "" THEN part.mimeType
                                           ELSE "application/octet-stream",
                              size |-> part.body.size] >>
                     ELSE <<>>
         IN  own \o findAttachments_TopLevelOnly(Tail(parts))

\* the entries findAttachments pushes for a part list: each part is tested
\* before its own sub-parts are walked, and before its later siblings
RECURSIVE findAttachments(_)
findAttachments(parts) ==
    IF parts = <<>> THEN <<>>
    ELSE LET part == Head(parts)
             own  == IF part.filename # "" /\ part.body.attachmentId # ""
                     THEN << [id |-> part.body.attachmentId, filename |-> part.filename,
                              mimeType |-> IF part.mimeType # "" THEN part.mimeType
                                           ELSE "application/octet-stream",
                              size |-> part.body.size] >>
                     ELSE <<>>
         IN  own \o findAttachments(part.parts) \o findAttachments(Tail(parts))

\* a variant that answers an empty listing with the empty JSON array
AttachmentsResult_EmptyIsJson(attachments) ==
    McpJson(attachments)

\* the response once the part tree has been walked
AttachmentsResult(attachments) ==
    IF Len(attachments) = 0
    THEN McpText("No attachments found on this message.")
    ELSE McpJson(attachments)

list_attachments ==
    /\ pc = "call" /\ tool = "list_attachments"
    /\ \E out \in Outcomes :
         LET call == Call("users.messages.get",
                          [id |-> args.messageId, format |-> "full"], out)
         IN  IF ~out.ok THEN Abort(call)
             ELSE \E payload \in AttachmentPayloads :
                    LET attachments ==
                            findAttachments(IF payload.present /\ payload.parts.present
                                            THEN payload.parts.v ELSE <<>>)
                    IN  /\ calls' = Append(calls, call)
                        /\ local' = [payload |-> payload, attachments |-> attachments]
                        /\ response' = AttachmentsResult(attachments)
                        /\ pc' = "done"
                        /\ UNCHANGED <<tool, authorization, env, args, gmail>>

----------------------------------------------------------------------------
(* reply_to_email *)

\* Subject headers of the messages replied to
ReplySubjects ==
    { "", "hello", "Re: hello", "Re:", "Re:hello", "re: hello", "RE: hello", "Re", "R",
      " Re: hello", "Fwd: Re: hello", "Re: Re: hello" }

\* what the metadata fetch of the original returns
OriginalMessages ==
    { [threadId |-> "t1",
       headers  |-> <<Hdr("From", "bob@x.com"), Hdr("To", "me@x.com"),
                      Hdr("Subject", subj), Hdr("Message-ID", "<1@x>")>>]
        : subj \in ReplySubjects }
    \cup
    { [threadId |-> "t2",
       headers  |-> <<Hdr("from", "bob@x.com"), Hdr("to", "me@x.com"),
                      Hdr("cc", "eve@x.com"), Hdr("subject", subj),
                      Hdr("message-id", "<2@x>"), Hdr("references", "<0@x> <1@x>")>>]
        : subj \in {"hello", "Re: hello"} }
    \cup
    { [threadId |-> "t3", headers |-> <<>>],
      [threadId |-> "t5",
       headers  |-> <<Hdr("From", "bob@x.com"), Hdr("To", ""), Hdr("Cc", "eve@x.com"),
                      Hdr("Subject", "hello"), Hdr("References", "<0@x>")>>],
      [threadId |-> "t4",
       headers  |-> <<[name |-> JStr("Subject"), value |-> Null],
                      Hdr("Subject", "Re: late")>>] }

\* a variant that prefixes every reply
ReplySubject_AlwaysPrefix(origSubject) == "Re: " \o origSubject

\* origSubject.startsWith('Re:') ? origSubject : `Re: ${origSubject}`
ReplySubject(origSubject) ==
    IF StartsWith(origSubject, "Re:") THEN origSubject ELSE "Re: " \o origSubject

NonEmpty(str) == str # ""

\* a variant that starts the References anew with every reply
ReplyMessage_NoReferences(a, original) ==
    LET from            == getHeader(original.headers, "From")
        to              == getHeader(original.headers, "To")
        cc              == getHeader(original.headers, "Cc")
        origSubject     == getHeader(original.headers, "Subject")
        messageIdHeader == getHeader(original.headers, "Message-ID")
    IN  [to         |-> from,
         subject    |-> ReplySubject(origSubject),
         body       |-> a.body,
         cc         |-> IF a.replyAll THEN Some(SelectSeq(<<to, cc>>, NonEmpty)) ELSE None,
         inReplyTo  |-> messageIdHeader,
         references |-> messageIdHeader]

\* the options reply_to_email hands to buildRawEmail
ReplyMessage(a, original) ==
    LET from            == getHeader(original.headers, "From")
        to              == getHeader(original.headers, "To")
        cc              == getHeader(original.headers, "Cc")
        origSubject     == getHeader(original.headers, "Subject")
        messageIdHeader == getHeader(original.headers, "Message-ID")
        references      == getHeader(original.headers, "References")
    IN  [to         |-> from,
         subject    |-> ReplySubject(origSubject),
         body       |-> a.body,
         cc         |-> IF a.replyAll THEN Some(SelectSeq(<<to, cc>>, NonEmpty)) ELSE None,
         inReplyTo  |-> messageIdHeader,
         references |-> IF references # "" THEN references \o " " \o messageIdHeader
                        ELSE messageIdHeader]

\* reply_to_email up to the end of the fetch of the original
ReplyFetch ==
    /\ pc = "call" /\ tool = "reply_to_email"
    /\ \E out \in Outcomes :
         LET call == Call("users.messages.get",
                          [id |-> args.messageId, format |-> "metadata"], out)
         IN  IF ~out.ok THEN Abort(call)
             ELSE \E original \in OriginalMessages :
                    /\ calls' = Append(calls, call)
                    /\ local' = [original |-> original,
                                 message  |-> ReplyMessage(args, original)]
                    /\ pc' = "send"
                    /\ UNCHANGED <<tool, authorization, env, args, gmail, response>>

\* the send of the reply, in the original's thread
ReplySend ==
    /\ pc = "send" /\ tool = "reply_to_email"
    /\ \E now \in Clock, altNow \in Clock :
         /\ now <= altNow
         /\ LET m       == local.message
                options == [NoOptions EXCEPT !.to = m.to, !.subject = m.subject,
                                             !.body = m.body, !.cc = m.cc,
                                             !.inReplyTo = m.inReplyTo,
                                             !.references = m.references]
            IN  \E raw \in { buildRawEmail(options, now, altNow) },
                   out \in Outcomes, id \in ProviderIds :
                  Finish(Call("users.messages.send",
                              [message |-> local.message, raw |-> raw,
                               threadId |-> local.original.threadId],
                              out),
                         McpText("Reply sent. Message ID: " \o id))

----------------------------------------------------------------------------
(* The send-email webhook *)

EnvWith(secret, id, clientSecret, token) ==
    [WEBHOOK_SECRET |-> secret, GMAIL_CLIENT_ID |-> id,
     GMAIL_CLIENT_SECRET |-> clientSecret, GMAIL_REFRESH_TOKEN |-> token]

\* process.env as a webhook request finds it
WebhookEnvs ==
    { EnvWith(secret, c[1], c[2], c[3])
        : secret \in {Undefined, JStr(""), JStr("s3cret")},
          c \in { <<JStr("cid"), JStr("csec"), JStr("rtok")>>,
                  <<Undefined, JStr("csec"), JStr("rtok")>>,
                  <<JStr("cid"), JStr(""), JStr("rtok")>>,
                  <<JStr("cid"), JStr("csec"), Undefined>> } }

\* request.headers.get('authorization')
WebhookHeaders ==
    { Null, JStr("Bearer s3cret"), JStr("Bearer wrong"), JStr("s3cret"),
      JStr("bearer s3cret"), JStr("Bearer ") }

\* request bodies: not JSON, the JSON value null, or a JSON object whose fields
\* are absent or hold a value of any JSON type
WebhookPayloads ==
    { [kind |-> k, to |-> Undefined, subject |-> Undefined, body |-> Undefined,
       attachments |-> Undefined] : k \in {"unparsable", "null"} }
    \cup
    { [kind |-> "object", to |-> to, subject |-> subject, body |-> body,
       attachments |-> atts]
        : to \in {Undefined, Null, JStr(""), JStr("a@b.com"), JNum(5), JArr(0), JObj},
          subject \in {Undefined, JStr(""), JStr("Hi"), JNum(5), JArr(0), JObj},
          body \in {Undefined, JStr(""), JStr("hello"), JNum(5)},
          atts \in {Undefined, JArr(1)} }

ErrJsonParse == "Unexpected token in JSON"
ErrDestructureNull == "Cannot destructure property 'to' of 'payload' as it is null."
ErrMissingEnv == "Missing GMAIL_CLIENT_ID, GMAIL_CLIENT_SECRET, or GMAIL_REFRESH_TOKEN."
ErrBufferFrom == "The first argument must be of type string or an instance of Buffer."

\* a variant that accepts any header when none was sent
BearerOk_MissingHeaderPasses(e, auth) ==
    \/ ~Truthy(e.WEBHOOK_SECRET)
    \/ auth.t = "null"
    \/ auth = JStr("Bearer " \o e.WEBHOOK_SECRET.s)

\* !(secret && auth !== `Bearer ${secret}`)
BearerOk(e, auth) ==
    \/ ~Truthy(e.WEBHOOK_SECRET)
    \/ auth = JStr("Bearer " \o e.WEBHOOK_SECRET.s)

\* a variant that does not look at body
FieldsInvalid_NoBodyCheck(p) == ~Truthy(p.to) \/ ~Truthy(p.subject)

\* !to || !subject || typeof emailBody !== 'string'
FieldsInvalid(p) == ~Truthy(p.to) \/ ~Truthy(p.subject) \/ p.body.t # "string"

getCredentialsFromEnv(e) ==
    IF \/ ~Truthy(e.GMAIL_CLIENT_ID)
       \/ ~Truthy(e.GMAIL_CLIENT_SECRET)
       \/ ~Truthy(e.GMAIL_REFRESH_TOKEN)
    THEN Thrown(ErrMissingEnv)
    ELSE [ok |-> TRUE, error |-> "", clientId |-> e.GMAIL_CLIENT_ID.s,
          clientSecret |-> e.GMAIL_CLIENT_SECRET.s,
          refreshToken |-> e.GMAIL_REFRESH_TOKEN.s]

\* `${v}`: how a template literal renders a value
TemplateString(v) ==
    CASE v.t = "string" -> v.s
      [] v.t = "number" -> ToDecimal(v.n)
      [] v.t = "array"  -> ""
      [] v.t = "object" -> "[object Object]"
      [] OTHER          -> v.t

\* Buffer.from(v) takes a string or an array and throws a TypeError on a number
\* or a plain object
BufferFromThrows(v) == v.t \notin {"string", "array"}

\* the webhook's buildRawEmail: the message it encodes, or the TypeError of
\* Buffer.from(options.subject)
WebhookBuildRawEmail(p) ==
    IF BufferFromThrows(p.subject)
    THEN [ok |-> FALSE, error |-> ErrBufferFrom, message |-> <<>>]
    ELSE [ok |-> TRUE, error |-> "",
          message |-> [to |-> TemplateString(p.to), subject |-> p.subject,
                       body |-> p.body.s,
                       \* Array.isArray(attachments) ? attachments : []
                       attachments |-> IF p.attachments.t = "array"
                                       THEN p.attachments.n ELSE 0]]

\* a variant that hides the failure's reason
WebhookFailure_Generic(message) == HttpJson(500, FALSE, "Internal Server Error", "")

\* catch (e): NextResponse.json({error: message}, {status: 500})
WebhookFailure(message) == HttpJson(500, FALSE, message, "")

\* a webhook request arrives
ReceiveWebhook ==
    /\ pc = "idle"
    /\ tool' = "webhook"
    /\ \E e \in WebhookEnvs : env' = e
    /\ \E h \in WebhookHeaders : authorization' = h
    /\ \E p \in WebhookPayloads : args' = p
    /\ pc' = "post"
    /\ gmail' = NoClient
    /\ local' = NoLocal
    /\ calls' = <<>>
    /\ response' = NoResponse

Respond(r) ==
    /\ response' = r
    /\ pc' = "done"
    /\ UNCHANGED <<gmail, local>>

\* POST up to the send call: the bearer check, the body, the fields, the
\* credentials, the message
WebhookPOST ==
    /\ pc = "post"
    /\ IF ~BearerOk(env, authorization)
         THEN Respond(HttpJson(401, FALSE, "Unauthorized", ""))
       ELSE IF args.kind = "unparsable"
         THEN Respond(WebhookFailure(ErrJsonParse))
       ELSE IF args.kind = "null"
         THEN Respond(WebhookFailure(ErrDestructureNull))
       ELSE IF FieldsInvalid(args)
         THEN Respond(HttpJson(400, FALSE, "Missing or invalid: to, subject, body", ""))
       ELSE LET creds == getCredentialsFromEnv(env)
                raw   == WebhookBuildRawEmail(args)
            IN  IF ~creds.ok THEN Respond(WebhookFailure(creds.error))
                ELSE IF ~raw.ok THEN Respond(WebhookFailure(raw.error))
                ELSE /\ gmail' = GmailClient(creds)
                     /\ local' = [message |-> raw.message]
                     /\ pc' = "webhook_send"
                     /\ UNCHANGED response
    /\ UNCHANGED <<tool, authorization, env, args, calls>>

\* a variant that answers without the message's identifier
WebhookSuccess_NoId(result) == HttpJson(200, TRUE, "", "")

\* NextResponse.json({ok: true, messageId: result.data.id})
WebhookSuccess(result) == HttpJson(200, TRUE, "", result.data.id)

\* gmail.users.messages.send returns its result or throws, and POST answers
WebhookSend ==
    /\ pc = "webhook_send"
    /\ \E out \in Outcomes, id \in ProviderIds :
         LET call   == Call("users.messages.send", [message |-> local.message], out)
             result == [data |-> [id |-> id]]
         IN  /\ calls' = Append(calls, call)
             /\ IF out.ok
                THEN /\ local' = [message |-> local.message, result |-> result]
                     /\ response' = WebhookSuccess(result)
                ELSE /\ response' = WebhookFailure(out.error)
                     /\ UNCHANGED local
    /\ pc' = "done"
    /\ UNCHANGED <<tool, authorization, env, args, gmail>>

----------------------------------------------------------------------------
(* The specification *)

Next ==
    \/ ReceiveMcp
    \/ GetGmailClient
    \/ send_email
    \/ read_email
    \/ delete_email
    \/ trash_email
    \/ modify_email
    \/ list_attachments
    \/ download_attachment
    \/ create_draft
    \/ send_draft
    \/ delete_draft
    \/ list_labels
    \/ create_label
    \/ update_label
    \/ delete_label
    \/ list_filters
    \/ delete_filter
    \/ get_thread
    \/ batch_modify_emails
    \/ batch_delete_emails
    \/ create_filter
    \/ SearchList
    \/ SearchDetail
    \/ DraftsList
    \/ DraftsDetail
    \/ ReplyFetch
    \/ ReplySend
    \/ ReceiveWebhook
    \/ WebhookPOST
    \/ WebhookSend
    \/ EndRequest

Spec == Init /\ [][Next]_vars

----------------------------------------------------------------------------
(* The encoders and decoders on their own: each is applied to every input of
   a bounded set *)

\* the code units texts are made of: "a", "c", "o", U+00E9, U+20AC, and the
\* two halves of the surrogate pair of U+1F600
TextUnits == { 97, 99, 111, 233, 8364, 55357, 56832 }

Texts == UNION { [1..n -> TextUnits] : n \in 0..MaxTextLen }

\* the options buildRawEmail is called with: plain-text messages of every
\* text, and messages with and without an HTML body, Cc and attachments
EncoderOptions ==
    { [NoOptions EXCEPT !.to = "a@b.com", !.subject = "Hi", !.body = b] : b \in Texts }
    \cup
    { [NoOptions EXCEPT !.to = "a@b.com", !.subject = "Hi", !.body = b, !.htmlBody = h,
                       !.attachments = atts]
        : b \in MailBodies, h \in HtmlBodies,
          atts \in {None} \cup { Some(l) : l \in AttachmentLists } }

\* the options the webhook's buildRawEmail is called with: attachments is
\* always an array there
WebhookOptions ==
    { [to |-> "a@b.com", subject |-> "Hi", body |-> b, attachments |-> l]
        : b \in MailBodies, l \in AttachmentLists }

CodecInit ==
    /\ pc = "input"
    /\ \/ tool = "encodeBase64Url" /\ args \in { [data |-> t] : t \in Texts }
       \/ tool = "buildRawEmail" /\ args \in EncoderOptions
       \/ tool = "webhook.buildRawEmail" /\ args \in WebhookOptions
    /\ authorization = Null
    /\ env = NoEnv
    /\ gmail = NoClient
    /\ local = NoLocal
    /\ calls = <<>>
    /\ response = NoResponse

\* encodeBase64Url(data)
EncodeText ==
    /\ pc = "input" /\ tool = "encodeBase64Url"
    /\ local' = [encoded |-> encodeBase64Url(args.data)]
    /\ pc' = "encoded"
    /\ UNCHANGED <<tool, authorization, env, args, gmail, calls, response>>

\* the encoding comes back as the body data of a message without sub-parts:
\* decodeBase64Url on its own, and parseMessage
DecodeText ==
    /\ pc = "encoded" /\ tool = "encodeBase64Url"
    /\ local' = [encoded |-> local.encoded,
                 decoded |-> decodeBase64Url(local.encoded),
                 parsed  |-> parseMessage(Message(Payload(None, None, local.encoded)))]
    /\ pc' = "decoded"
    /\ UNCHANGED <<tool, authorization, env, args, gmail, calls, response>>

\* buildRawEmail(options) of the MCP server
EncodeMail ==
    /\ pc = "input" /\ tool = "buildRawEmail"
    /\ \E now \in Clock, altNow \in Clock :
         /\ now <= altNow
         /\ local' = [raw |-> buildRawEmail(args, now, altNow)]
    /\ pc' = "encoded"
    /\ UNCHANGED <<tool, authorization, env, args, gmail, calls, response>>

\* buildRawEmail(options) of the webhook
EncodeWebhookMail ==
    /\ pc = "input" /\ tool = "webhook.buildRawEmail"
    /\ \E now \in Clock :
         local' = [raw |-> WebhookRawEmail(args, now)]
    /\ pc' = "encoded"
    /\ UNCHANGED <<tool, authorization, env, args, gmail, calls, response>>

CodecNext ==
    \/ EncodeText
    \/ DecodeText
    \/ EncodeMail
    \/ EncodeWebhookMail

CodecSpec == CodecInit /\ [][CodecNext]_vars

----------------------------------------------------------------------------
(* Concurrent MCP requests: every request has its own handler invocation, and
   the invocations interleave at their awaits. In this specification each
   request-scoped variable is a function of the request, and calls is the one
   log of the provider calls of all requests, in the order they were made. *)

Requests == 1..MaxRequests

\* Authorization headers of concurrent requests: two full sets of
\* credentials, one that shares client_id and client_secret with the first
\* but has a token of its own, one without refresh_token, and no header
ConcurrentHeaders ==
    { Null,
      JStr("GMAIL client_id=a&client_secret=b&refresh_token=c"),
      JStr("GMAIL client_id=a&client_secret=b&refresh_token=d"),
      JStr("GMAIL refresh_token=z&client_secret=y&client_id=x"),
      JStr("GMAIL client_id=a&client_secret=b") }

ConcurrentTools == {"trash_email", "reply_to_email"}

\* the provider calls a tool's handler makes, in order
CallsOf(t) ==
    IF t = "reply_to_email" THEN <<"users.messages.get", "users.messages.send">>
    ELSE <<"users.messages.trash">>

\* the largest element of a non-empty set of numbers
Greatest(S) == CHOOSE x \in S : \A y \in S : y <= x

\* a variant in which the headers are kept in one place for all requests: the
\* headers of the request that arrived last
RequestHeaders_Shared(r) ==
    authorization[Greatest({ q \in Requests : pc[q] # "idle" })]

\* await headers(): the headers of the request this invocation serves
RequestHeaders(r) == authorization[r]

ConcurrentInit ==
    /\ pc = [r \in Requests |-> "idle"]
    /\ tool = [r \in Requests |-> "none"]
    /\ authorization = [r \in Requests |-> Null]
    /\ env = NoEnv
    /\ args = [none |-> TRUE]
    /\ gmail = [r \in Requests |-> NoClient]
    /\ local = [r \in Requests |-> [headersList |-> Null, made |-> 0]]
    /\ calls = <<>>
    /\ response = [r \in Requests |-> NoResponse]

\* a request arrives and its tool handler is invoked
Arrive(r) ==
    /\ pc[r] = "idle"
    /\ \E h \in ConcurrentHeaders, t \in ConcurrentTools :
         /\ authorization' = [authorization EXCEPT ![r] = h]
         /\ tool' = [tool EXCEPT ![r] = t]
    /\ pc' = [pc EXCEPT ![r] = "headers"]
    /\ UNCHANGED <<env, args, gmail, local, calls, response>>

\* getCredentials up to its await: const headersList = await headers()
AwaitHeaders(r) ==
    /\ pc[r] = "headers"
    /\ local' = [local EXCEPT ![r].headersList = RequestHeaders(r)]
    /\ pc' = [pc EXCEPT ![r] = "client"]
    /\ UNCHANGED <<tool, authorization, env, args, gmail, calls, response>>

\* the rest of getCredentials and getGmailClient: a client of this
\* invocation's own, or a throw
BuildClient(r) ==
    /\ pc[r] = "client"
    /\ LET creds == getCredentials(local[r].headersList)
       IN  IF creds.ok
           THEN /\ gmail' = [gmail EXCEPT ![r] = GmailClient(creds)]
                /\ pc' = [pc EXCEPT ![r] = "call"]
                /\ UNCHANGED response
           ELSE /\ response' = [response EXCEPT ![r] = McpError(creds.error)]
                /\ pc' = [pc EXCEPT ![r] = "done"]
                /\ UNCHANGED gmail
    /\ UNCHANGED <<tool, authorization, env, args, local, calls>>

\* the next provider call of the handler, made through its client; a failed
\* call ends the handler
ProviderCall(r) ==
    /\ pc[r] = "call"
    /\ \E out \in Outcomes :
         LET k    == local[r].made + 1
             call == [request |-> r, api |-> CallsOf(tool[r])[k], auth |-> gmail[r],
                      ok |-> out.ok, error |-> out.error]
         IN  /\ calls' = Append(calls, call)
             /\ local' = [local EXCEPT ![r].made = k]
             /\ IF ~out.ok
                THEN /\ response' = [response EXCEPT ![r] = McpError(out.error)]
                     /\ pc' = [pc EXCEPT ![r] = "done"]
                ELSE IF k = Len(CallsOf(tool[r]))
                THEN /\ response' = [response EXCEPT ![r] = McpText("ok")]
                     /\ pc' = [pc EXCEPT ![r] = "done"]
                ELSE UNCHANGED <<pc, response>>
    /\ UNCHANGED <<tool, authorization, env, args, gmail>>

ConcurrentNext ==
    \/ \E r \in Requests : Arrive(r)
    \/ \E r \in Requests : AwaitHeaders(r)
    \/ \E r \in Requests : BuildClient(r)
    \/ \E r \in Requests : ProviderCall(r)

ConcurrentSpec == ConcurrentInit /\ [][ConcurrentNext]_vars

----------------------------------------------------------------------------
(* Properties *)

BatchTools == {"batch_modify_emails", "batch_delete_emails"}

\* C1: a batch tool makes a single bulk call that carries exactly the first
\* min(n, 50) of the n input ids, in input order, and the response text reports
\* min(n, 50), not n.
C1_BatchForwardsFirst50 ==
    (tool \in BatchTools /\ Len(calls) >= 1) =>
        LET n == Len(args.messageIds)
            k == IF n < 50 THEN n ELSE 50
            modify == tool = "batch_modify_emails"
        IN  /\ Len(calls) = 1
            /\ calls[1].api = IF modify THEN "users.messages.batchModify"
                              ELSE "users.messages.batchDelete"
            /\ Len(calls[1].req.ids) = k
            /\ \A i \in 1..k : calls[1].req.ids[i] = args.messageIds[i]
            /\ calls[1].ok =>
                 /\ ~response.isError
                 /\ response.text = (IF modify THEN "Batch modified " ELSE "Batch deleted ")
                                      \o ToDecimal(k) \o " emails."
                 /\ (n = 75 /\ modify) => response.text = "Batch modified 50 emails."
                 /\ (n = 75 /\ ~modify) => response.text = "Batch deleted 50 emails."

\* 75 ids in, 50 forwarded, "50" reported
C1_Witness ==
    /\ tool = "batch_delete_emails" /\ pc = "done"
    /\ Len(args.messageIds) = 75
    /\ Len(calls) = 1 /\ calls[1].ok
    /\ Len(calls[1].req.ids) = 50
    /\ response.text = "Batch deleted 50 emails."

Contains(seq, x) == \E i \in 1..Len(seq) : seq[i] = x

\* C2: the add-set create_filter sends holds every explicit add-label and the
\* label of every shorthand that is true: TRASH for trash, STARRED for star,
\* IMPORTANT for markImportant.
C2_AddSetComplete ==
    (tool = "create_filter" /\ Len(calls) = 1) =>
        LET add == calls[1].req.action.addLabelIds.v
        IN  /\ \A i \in 1..Len(args.addLabelIds.v) : Contains(add, args.addLabelIds.v[i])
            /\ args.trash => Contains(add, "TRASH")
            /\ args.star => Contains(add, "STARRED")
            /\ args.markImportant => Contains(add, "IMPORTANT")

\* C3: the remove-set create_filter sends holds every explicit remove-label,
\* UNREAD whenever markRead is true and INBOX whenever archive is true.
C3_RemoveSetComplete ==
    (tool = "create_filter" /\ Len(calls) = 1) =>
        LET rem == calls[1].req.action.removeLabelIds.v
        IN  /\ \A i \in 1..Len(args.removeLabelIds.v) : Contains(rem, args.removeLabelIds.v[i])
            /\ args.markRead => Contains(rem, "UNREAD")
            /\ args.archive => Contains(rem, "INBOX")
            /\ (args.markRead /\ args.archive /\ ~args.removeLabelIds.present) =>
                 /\ calls[1].req.action.removeLabelIds.present
                 /\ Contains(rem, "UNREAD") /\ Contains(rem, "INBOX")

\* {markRead: true, archive: true} on top of explicit remove-labels
C3_Witness ==
    /\ tool = "create_filter" /\ Len(calls) = 1
    /\ args.markRead /\ args.archive
    /\ args.removeLabelIds = Some(<<"Label_1", "Label_2">>)
    /\ calls[1].req.action.removeLabelIds.v = <<"Label_1", "Label_2", "UNREAD", "INBOX">>

HasRePrefix(str) == Len(str) >= 3 /\ SubSeq(str, 1, 3) = "Re:"

\* C4: the subject of the reply sent is the original subject unchanged when that
\* begins with "Re:", and "Re: " followed by it otherwise; the rule applied to
\* the subject it produced changes nothing.
C4_ReplySubjectRule ==
    (tool = "reply_to_email" /\ Len(calls) = 2) =>
        LET orig == getHeader(local.original.headers, "Subject")
            subj == calls[2].req.message.subject
        IN  /\ HasRePrefix(orig) => subj = orig
            /\ ~HasRePrefix(orig) => subj = "Re: " \o orig
            /\ HasRePrefix(subj)
            /\ ReplySubject(subj) = subj

\* a reply to "Re: hello" goes out as "Re: hello"
C4_Witness ==
    /\ tool = "reply_to_email" /\ Len(calls) = 2
    /\ getHeader(local.original.headers, "Subject") = "Re: hello"
    /\ calls[2].api = "users.messages.send"
    /\ calls[2].req.message.subject = "Re: hello"

\* the webhook's POST has run its checks for the request at hand
WebhookChecked == tool = "webhook" /\ pc \in {"webhook_send", "done"}

SecretConfigured == env.WEBHOOK_SECRET.t = "string" /\ env.WEBHOOK_SECRET.s # ""

\* the caller presented exactly "Bearer <WEBHOOK_SECRET>"
BearerPresented ==
    /\ authorization.t = "string"
    /\ authorization.s = "Bearer " \o env.WEBHOOK_SECRET.s

Authorised == ~SecretConfigured \/ BearerPresented

\* C5: with WEBHOOK_SECRET configured, a request whose Authorization header is
\* not exactly "Bearer <WEBHOOK_SECRET>" (a missing header included) is answered
\* 401 whatever its body, and no email is sent; with WEBHOOK_SECRET not
\* configured no request is answered 401.
C5_WebhookBearerCheck ==
    WebhookChecked =>
        /\ (SecretConfigured /\ ~BearerPresented) =>
             /\ pc = "done"
             /\ response.status = 401
             /\ calls = <<>>
        /\ ~SecretConfigured => ~(pc = "done" /\ response.status = 401)

\* a request without Authorization header, a well-formed body and a configured
\* secret is turned away
C5_Witness ==
    /\ WebhookChecked /\ SecretConfigured
    /\ authorization = Null
    /\ args.kind = "object" /\ args.to = JStr("a@b.com")
    /\ args.subject = JStr("Hi") /\ args.body = JStr("hello")
    /\ pc = "done" /\ response.status = 401 /\ calls = <<>>

MissingOrEmpty(v) == v.t = "undefined" \/ (v.t = "string" /\ v.s = "")

GmailEnvConfigured ==
    /\ env.GMAIL_CLIENT_ID.t = "string" /\ env.GMAIL_CLIENT_ID.s # ""
    /\ env.GMAIL_CLIENT_SECRET.t = "string" /\ env.GMAIL_CLIENT_SECRET.s # ""
    /\ env.GMAIL_REFRESH_TOKEN.t = "string" /\ env.GMAIL_REFRESH_TOKEN.s # ""

NotAString(v) == v.t \in {"number", "array", "object"}

\* C7: an authorised request whose to or subject is present but is not a string
\* (a number, an array or an object) is answered 400 and no email is sent.
C7_WrongShapeIs400 ==
    ( /\ WebhookChecked /\ Authorised
      /\ args.kind = "object"
      /\ NotAString(args.to) \/ NotAString(args.subject) ) =>
        /\ pc = "done"
        /\ response.status = 400
        /\ calls = <<>>

\* C8: every failure that is neither an authorisation failure nor a field
\* validation failure (Gmail environment credentials missing, an unparsable
\* body, a failed send call) is answered 500 with the failure's message as
\* error; every request ends with exactly one of 200, 400, 401, 500, and 200
\* only after a send call that succeeded.
C8_WebhookOtherFailuresAre500 ==
    (tool = "webhook" /\ pc = "done") =>
        LET sent == Len(calls) = 1 /\ calls[1].ok
        IN  /\ response.status \in {200, 400, 401, 500}
            /\ Len(calls) <= 1
            /\ (response.status = 200) <=> sent
            /\ (response.status = 401) <=> ~Authorised
            /\ (Authorised /\ response.status # 400 /\ ~sent) =>
                 /\ response.status = 500
                 /\ response.error # ""
            /\ (Authorised /\ args.kind = "unparsable") =>
                 response.status = 500 /\ response.error = ErrJsonParse
            /\ ( /\ Authorised /\ args.kind = "object"
                 /\ response.status # 400 /\ ~GmailEnvConfigured ) =>
                 response.status = 500 /\ response.error = ErrMissingEnv
            /\ (Len(calls) = 1 /\ ~calls[1].ok) =>
                 response.status = 500 /\ response.error = calls[1].error

\* the provider refuses the send: 500 with the provider's reason
C8_Witness ==
    /\ tool = "webhook" /\ pc = "done"
    /\ Len(calls) = 1 /\ ~calls[1].ok
    /\ response.status = 500 /\ response.error = "Rate Limit Exceeded"

\* the header is absent, does not start with "GMAIL ", or lacks one of the
\* three credentials (missing or empty)
LacksCredentials(h) ==
    \/ h.t # "string"
    \/ ~StartsWith(h.s, "GMAIL ")
    \/ \E k \in {"client_id", "client_secret", "refresh_token"} :
         LET v == ParamsGet(SubSeq(h.s, 7, Len(h.s)), k)
         IN  v.t # "string" \/ v.s = ""

\* C9: an MCP request whose Authorization header is absent, does not start with
\* "GMAIL " or lacks any of client_id, client_secret, refresh_token fails with
\* an error, and no provider call is issued for it, whatever the tool.
C9_NoCredentialsNoCall ==
    (tool \in McpTools /\ pc # "client" /\ LacksCredentials(authorization)) =>
        /\ pc = "done"
        /\ response.isError
        /\ response.text \in {ErrNoGmailHeader, ErrMissingCredentials}
        /\ calls = <<>>

\* a header without refresh_token: the request fails before any call
C9_Witness ==
    /\ tool = "reply_to_email" /\ pc = "done"
    /\ authorization = JStr("GMAIL client_id=a&client_secret=b")
    /\ response.isError /\ response.text = ErrMissingCredentials
    /\ calls = <<>>

IsErrorResponse == IF tool = "webhook" THEN response.status = 500 ELSE response.isError

\* C10: a failed provider call is the last call of its request: the handler
\* issues nothing after it (no retry, no remaining item, no send after a failed
\* fetch) and the request ends with an error, not with a partial result.
C10_FailedCallAborts ==
    \A i \in 1..Len(calls) :
        ~calls[i].ok =>
            /\ i = Len(calls)
            /\ pc = "done"
            /\ IsErrorResponse
            /\ tool # "webhook" => response.json = <<>>

\* search_emails lists three messages; the second detail call fails and the
\* third is never made
C10_Witness ==
    /\ tool = "search_emails" /\ pc = "done"
    /\ Len(calls) = 3
    /\ Len(local.messages) = 3
    /\ calls[1].ok /\ calls[2].ok /\ ~calls[3].ok
    /\ calls[3].api = "users.messages.get"
    /\ response.isError

----------------------------------------------------------------------------
(* C11 *)

\* search_emails has issued its listing call
SearchListed ==
    /\ tool = "search_emails"
    /\ Len(calls) >= 1
    /\ calls[1].api = "users.messages.list"

\* C11: the maxResults that search_emails forwards to the listing call is 10
\* when the caller supplies none, and is never above 100 whatever the caller
\* supplies.
C11_SearchLimitDefaultAndCap ==
    SearchListed =>
        /\ args.maxResults = Undefined => calls[1].req.maxResults = 10
        /\ calls[1].req.maxResults <= 100

\* a caller asked for more than 100 and the listing call went out with 100
C11_Witness ==
    /\ SearchListed
    /\ args.maxResults.t = "number" /\ args.maxResults.n > 100
    /\ calls[1].req.maxResults = 100

----------------------------------------------------------------------------
(* C12 *)

\* a listing tool's listing call succeeded and returned no item
ListedNothing ==
    /\ tool \in {"search_emails", "list_drafts"}
    /\ Len(calls) >= 1 /\ calls[1].ok
    /\ local # NoLocal /\ local.messages = <<>>

\* list_attachments fetched the message and found no attachment part
FoundNoAttachment ==
    /\ tool = "list_attachments"
    /\ Len(calls) >= 1 /\ calls[1].ok
    /\ local # NoLocal /\ local.attachments = <<>>

\* C12: an empty result is not an error. search_emails with no matching
\* message, list_drafts with no draft and list_attachments with no attachment
\* part each answer with a normal (non-error) response carrying their "no
\* results" message, and the two listing tools make no per-item detail call.
C12_EmptyResultIsSuccess ==
    /\ ListedNothing =>
          /\ pc = "done"
          /\ Len(calls) = 1
          /\ response = McpText(IF tool = "search_emails"
                                THEN "No emails found matching your query."
                                ELSE "No drafts found.")
          /\ ~response.isError
    /\ FoundNoAttachment =>
          /\ pc = "done"
          /\ Len(calls) = 1
          /\ response = McpText("No attachments found on this message.")
          /\ ~response.isError

\* a message whose part tree has parts, none of them an attachment, was
\* answered with the "no attachments" message
C12_Witness ==
    /\ FoundNoAttachment
    /\ local.payload.present /\ local.payload.parts.present
    /\ Len(local.payload.parts.v) >= 2
    /\ response.text = "No attachments found on this message."

----------------------------------------------------------------------------
(* C19 *)

\* the positions of the parts of a part tree: <<i>> is the i-th top-level
\* part, p \o <<j>> the j-th sub-part of the part at p
RECURSIVE PartPaths(_)
PartPaths(parts) ==
    UNION { { <<i>> } \cup { <<i>> \o p : p \in PartPaths(parts[i].parts) }
            : i \in 1..Len(parts) }

RECURSIVE PartAt(_, _)
PartAt(parts, path) ==
    IF Len(path) = 1 THEN parts[path[1]]
    ELSE PartAt(parts[path[1]].parts, Tail(path))

\* depth-first pre-order: a part comes before its descendants, and before
\* its later siblings and their descendants
PreOrderBefore(p, q) ==
    \/ Len(p) < Len(q) /\ SubSeq(q, 1, Len(p)) = p
    \/ \E k \in 1..Min(Len(p), Len(q)) :
         /\ SubSeq(p, 1, k - 1) = SubSeq(q, 1, k - 1)
         /\ p[k] < q[k]

\* the part tree list_attachments walked
WalkedParts ==
    IF local.payload.present /\ local.payload.parts.present
    THEN local.payload.parts.v ELSE <<>>

\* positions of the parts with a non-empty filename and an attachmentId
AttachmentPaths ==
    { p \in PartPaths(WalkedParts) :
        /\ PartAt(WalkedParts, p).filename # ""
        /\ PartAt(WalkedParts, p).body.attachmentId # "" }

\* those positions in depth-first pre-order
AttachmentPathsInOrder ==
    [ i \in 1..Cardinality(AttachmentPaths) |->
        CHOOSE p \in AttachmentPaths :
            Cardinality({ q \in AttachmentPaths : PreOrderBefore(q, p) }) = i - 1 ]

AttachmentsListed ==
    /\ tool = "list_attachments"
    /\ pc = "done" /\ Len(calls) = 1 /\ calls[1].ok

\* C19: list_attachments returns exactly the parts of the payload's part
\* tree, at any depth, that carry both a non-empty filename and a body
\* attachmentId, in depth-first pre-order with siblings in array order; a
\* part lacking either is not returned.
C19_AttachmentsPreOrder ==
    AttachmentsListed =>
        /\ Len(local.attachments) = Cardinality(AttachmentPaths)
        /\ \A i \in 1..Len(local.attachments) :
             LET part == PartAt(WalkedParts, AttachmentPathsInOrder[i])
             IN  /\ local.attachments[i].id = part.body.attachmentId
                 /\ local.attachments[i].filename = part.filename
        /\ local.attachments # <<>> => response = McpJson(local.attachments)

\* an attachment, below it a part that is none, below that a second
\* attachment two levels down: the two attachments are returned, parent first
C19_Witness ==
    /\ AttachmentsListed
    /\ <<1, 1, 1>> \in AttachmentPaths
    /\ <<1>> \in AttachmentPaths
    /\ <<1, 1>> \notin AttachmentPaths
    /\ Len(local.attachments) = 2
    /\ local.attachments[1].id # local.attachments[2].id
    /\ response.json = local.attachments

----------------------------------------------------------------------------
(* C18 *)

\* read_email fetched a message and answered with its parse
MessageRead ==
    /\ tool = "read_email"
    /\ pc = "done" /\ Len(calls) = 1 /\ calls[1].ok

\* the header list parseMessage looks names up in
ReadHeaders ==
    LET payload == local.message.payload
    IN  IF payload.present /\ payload.headers.present THEN payload.headers.v ELSE << >>

\* two names are the same up to the case of their letters
EqualsIgnoringCase(a, b) ==
    /\ Len(a) = Len(b)
    /\ \A i \in 1..Len(a) :
         LET x == SubSeq(a, i, i)
             y == SubSeq(b, i, i)
         IN  \/ x = y
             \/ \E k \in 1..26 :
                  /\ { x, y } = { SubSeq("ABCDEFGHIJKLMNOPQRSTUVWXYZ", k, k),
                                  SubSeq("abcdefghijklmnopqrstuvwxyz", k, k) }

\* places of the headers named name, whatever the case of their letters
HeadersNamed(name) ==
    { i \in 1..Len(ReadHeaders) :
        /\ ReadHeaders[i].name.t = "string"
        /\ EqualsIgnoringCase(ReadHeaders[i].name.s, name) }

\* the value of the first header named name; "" when there is none or when
\* that header's value is null
FirstHeaderValue(name) ==
    IF HeadersNamed(name) = {} THEN ""
    ELSE LET first == CHOOSE i \in HeadersNamed(name) : \A j \in HeadersNamed(name) : i <= j
         IN  IF ReadHeaders[first].value.t = "string" THEN ReadHeaders[first].value.s
             ELSE ""

\* C18: getHeader returns the value of the first header, in list order,
\* whose name equals the name asked for ignoring letter case, and returns ""
\* (never an error) when no header matches, when the list is empty or absent,
\* or when a header's name or value is null; so for the From, To, Subject and
\* Date of parseMessage.
C18_FirstHeaderIgnoringCase ==
    MessageRead =>
        /\ ~response.isError
        /\ response.json.from = FirstHeaderValue("From")
        /\ response.json.to = FirstHeaderValue("To")
        /\ response.json.subject = FirstHeaderValue("Subject")
        /\ response.json.date = FirstHeaderValue("Date")

\* two Subject headers written in different case with different values: the
\* first one's value is the parsed subject
C18_Witness ==
    /\ MessageRead
    /\ Len(ReadHeaders) = 2
    /\ HeadersNamed("Subject") = { 1, 2 }
    /\ ReadHeaders[1].name # ReadHeaders[2].name
    /\ ReadHeaders[1].name.s # "Subject"
    /\ ReadHeaders[1].value.t = "string" /\ ReadHeaders[1].value.s # ""
    /\ ReadHeaders[1].value # ReadHeaders[2].value
    /\ response.json.subject = ReadHeaders[1].value.s

----------------------------------------------------------------------------
(* C20 *)

\* places of the top-level parts of a MIME type
PartsOfType(mimeType) ==
    LET parts == local.message.payload.parts.v
    IN  { i \in 1..Len(parts) : parts[i].mimeType = mimeType }

\* the base64url data of the source parseMessage is to take the body from:
\* with sub-parts the first text/plain part, only without one the first
\* text/html part; without sub-parts the payload itself; "" when there is no
\* source or the source has no data
BodySourceData ==
    LET payload == local.message.payload
    IN  IF ~payload.present THEN ""
        ELSE IF ~payload.parts.present THEN payload.body.data
        ELSE IF PartsOfType("text/plain") # {}
        THEN payload.parts.v[CHOOSE i \in PartsOfType("text/plain") :
                                \A j \in PartsOfType("text/plain") : i <= j].body.data
        ELSE IF PartsOfType("text/html") # {}
        THEN payload.parts.v[CHOOSE i \in PartsOfType("text/html") :
                                \A j \in PartsOfType("text/html") : i <= j].body.data
        ELSE ""

----------------------------------------------------------------------------
(* C13 *)

\* the character of an ASCII code unit
CharOf(u) ==
    IF u = 13 THEN "\r"
    ELSE IF u = 10 THEN "\n"
    ELSE IF u <= 95 THEN SubSeq(AsciiLow, u - 31, u - 31)
    ELSE SubSeq(AsciiHigh, u - 96, u - 96)

RECURSIVE StringOfRange(_, _, _)
StringOfRange(units, lo, hi) ==
    IF lo > hi THEN ""
    ELSE IF lo = hi THEN CharOf(units[lo])
    ELSE LET mid == (lo + hi) \div 2
         IN  StringOfRange(units, lo, mid) \o StringOfRange(units, mid + 1, hi)

\* the string of a sequence of ASCII code units
StringOf(units) == StringOfRange(units, 1, Len(units))

\* the lines of a text whose lines end in CR LF
SplitLines(text) ==
    LET breaks == { i \in 1..(Len(text) - 1) : SubSeq(text, i, i + 1) = "\r\n" }
        nth(k) == CHOOSE i \in breaks : Cardinality({ j \in breaks : j < i }) = k - 1
        n      == Cardinality(breaks)
    IN  [ k \in 1..(n + 1) |->
            SubSeq(text,
                   IF k = 1 THEN 1 ELSE nth(k - 1) + 2,
                   IF k = n + 1 THEN Len(text) ELSE nth(k) - 1) ]

\* the lines of the MIME message a raw string carries
MimeLines(raw) == SplitLines(StringOf(decodeBase64Url(raw)))

\* no surrogate code unit stands without its partner
WellFormed(units) ==
    \A i \in 1..Len(units) :
        /\ IsHighSurrogate(units[i]) => i < Len(units) /\ IsLowSurrogate(units[i + 1])
        /\ IsLowSurrogate(units[i]) => i > 1 /\ IsHighSurrogate(units[i - 1])

\* a text has gone through encodeBase64Url and come back
TextDecoded == tool = "encodeBase64Url" /\ pc = "decoded"

\* buildRawEmail has encoded a message without HTML body and attachments
PlainMailEncoded ==
    /\ tool = "buildRawEmail" /\ pc = "encoded"
    /\ args.htmlBody = << >>
    /\ ~args.attachments.present

\* the body of a plain message: the last line of the MIME text
BodyLine(raw) == LET lines == MimeLines(raw) IN lines[Len(lines)]

\* C13 as stated: every plain-text body b comes back exactly: the body that
\* buildRawEmail encodes for a plain-text-only message decodes to b by the
\* decoder's rule, and decodeBase64Url(encodeBase64Url(b)) = b, also through
\* parseMessage on a payload without sub-parts.
C13_RoundTripEveryText ==
    /\ TextDecoded =>
          /\ local.decoded = args.data
          /\ local.parsed.body = args.data
    /\ PlainMailEncoded => decodeBase64Url(BodyLine(local.raw)) = args.body

\* a text with U+FFFD in the place of every surrogate that stands without
\* its partner; a well-formed text is left as it is
Normalised(units) ==
    [ i \in 1..Len(units) |->
        IF \/ /\ IsHighSurrogate(units[i])
              /\ ~(i < Len(units) /\ IsLowSurrogate(units[i + 1]))
           \/ /\ IsLowSurrogate(units[i])
              /\ ~(i > 1 /\ IsHighSurrogate(units[i - 1]))
        THEN 65533 ELSE units[i] ]

\* C13, amended: every plain-text body b that is well-formed UTF-16 (no
\* surrogate code unit without its partner) comes back exactly, through
\* buildRawEmail and the decoder's rule as through encodeBase64Url and
\* decodeBase64Url or parseMessage; any other body comes back with U+FFFD in
\* the place of each lone surrogate.
C13_RoundTripWellFormedText ==
    /\ TextDecoded =>
          /\ local.decoded = Normalised(args.data)
          /\ local.parsed.body = Normalised(args.data)
          /\ WellFormed(args.data) => local.decoded = args.data
    /\ PlainMailEncoded =>
          /\ decodeBase64Url(BodyLine(local.raw)) = Normalised(args.body)
          /\ WellFormed(args.body) => Normalised(args.body) = args.body

\* a text of three code units, one outside ASCII and a surrogate pair, whose
\* encoding is in the URL alphabet without padding, has come back
C13_Witness ==
    /\ TextDecoded
    /\ Len(args.data) = 3
    /\ WellFormed(args.data)
    /\ \E i \in 1..2 : IsHighSurrogate(args.data[i])
    /\ IndexOf(local.encoded, "=", 1) = 0
    /\ IndexOf(local.encoded, "-", 1) > 0 \/ IndexOf(local.encoded, "_", 1) > 0
    /\ local.decoded = args.data

----------------------------------------------------------------------------
(* The MIME structure of an encoded message, as a reader of the message
   finds it *)

\* one of the two encoders has encoded its message
MailEncoded ==
    /\ tool \in {"buildRawEmail", "webhook.buildRawEmail"}
    /\ pc = "encoded"

\* the attachments of the message that was encoded
EncodedAttachments ==
    IF tool = "webhook.buildRawEmail" THEN args.attachments
    ELSE IF args.attachments.present THEN args.attachments.v
    ELSE << >>

\* the message that was encoded has an HTML body
EncodedHtml == tool = "buildRawEmail" /\ args.htmlBody # << >>

\* least element of a non-empty set of numbers
Least(S) == CHOOSE i \in S : \A j \in S : i <= j

\* an entity (a message or a part): its header lines, up to the first empty
\* line, and its body lines, after it
Entity(lines) ==
    LET blanks == { i \in 1..Len(lines) : lines[i] = "" }
    IN  IF blanks = {} THEN [headers |-> lines, body |-> << >>]
        ELSE [headers |-> SubSeq(lines, 1, Least(blanks) - 1),
              body    |-> SubSeq(lines, Least(blanks) + 1, Len(lines))]

\* the value of the first header of a name; "" when there is none
HeaderValue(headers, name) ==
    LET found == { i \in 1..Len(headers) : StartsWith(headers[i], name \o ": ") }
    IN  IF found = {} THEN ""
        ELSE SubSeq(headers[Least(found)], Len(name) + 3, Len(headers[Least(found)]))

\* the boundary parameter of a multipart Content-Type value; "" when the
\* value is not of that multipart subtype
MultipartBoundary(contentType, subtype) ==
    LET prefix == "multipart/" \o subtype \o "; boundary=\""
    IN  IF /\ StartsWith(contentType, prefix)
           /\ Len(contentType) > Len(prefix)
           /\ SubSeq(contentType, Len(contentType), Len(contentType)) = "\""
        THEN SubSeq(contentType, Len(prefix) + 1, Len(contentType) - 1)
        ELSE ""

\* the parts of a multipart body: a part runs from the line after a
\* delimiter line to the line before the next delimiter line or the closing
\* delimiter line; what follows the first closing delimiter line is no part
MultipartParts(body, boundary) ==
    LET closers == { i \in 1..Len(body) : body[i] = "--" \o boundary \o "--" }
        end     == IF closers = {} THEN Len(body) + 1 ELSE Least(closers)
        opens   == { i \in 1..(end - 1) : body[i] = "--" \o boundary }
        nth(k)  == CHOOSE i \in opens : Cardinality({ j \in opens : j < i }) = k - 1
        n       == Cardinality(opens)
    IN  [ k \in 1..n |->
            SubSeq(body, nth(k) + 1, (IF k = n THEN end ELSE nth(k + 1)) - 1) ]

\* how many lines equal a given line
Occurrences(lines, line) == Cardinality({ i \in 1..Len(lines) : lines[i] = line })

ContentTypeOf(lines) == HeaderValue(Entity(lines).headers, "Content-Type")

----------------------------------------------------------------------------
(* C14 *)

\* C14: for a message with k >= 1 attachments, either encoder emits a
\* top-level multipart/mixed whose parts are exactly one body-bearing first
\* part followed by exactly k attachment parts, the i-th carrying the i-th
\* attachment's filename, mimeType and content, and which one terminating
\* boundary line closes.
C14_MixedPartsInOrder ==
    (MailEncoded /\ Len(EncodedAttachments) >= 1) =>
        \A lines \in { MimeLines(local.raw) } :
            LET top      == Entity(lines)
                boundary == MultipartBoundary(HeaderValue(top.headers, "Content-Type"),
                                              "mixed")
                parts    == MultipartParts(top.body, boundary)
                k        == Len(EncodedAttachments)
            IN  /\ boundary # ""
                /\ Len(parts) = k + 1
                /\ IF EncodedHtml
                   THEN MultipartBoundary(ContentTypeOf(parts[1]), "alternative") # ""
                   ELSE ContentTypeOf(parts[1]) = "text/plain; charset=\"UTF-8\""
                /\ \A i \in 1..k :
                     LET att  == EncodedAttachments[i]
                         part == Entity(parts[i + 1])
                     IN  /\ HeaderValue(part.headers, "Content-Type")
                              = att.mimeType \o "; name=\"" \o att.filename \o "\""
                         /\ HeaderValue(part.headers, "Content-Disposition")
                              = "attachment; filename=\"" \o att.filename \o "\""
                         /\ part.body = << att.content >>
                /\ Occurrences(top.body, "--" \o boundary \o "--") = 1
                /\ top.body[Len(top.body)] = "--" \o boundary \o "--"

----------------------------------------------------------------------------
(* C15 *)

\* the lines of the entity that holds the alternative group: the message
\* itself without attachments, the first part of the mixed message with them
AlternativeEntity(lines) ==
    IF Len(EncodedAttachments) = 0 THEN lines
    ELSE LET top == Entity(lines)
         IN  MultipartParts(top.body,
                            MultipartBoundary(HeaderValue(top.headers, "Content-Type"),
                                              "mixed"))[1]

\* C15: given an HTML body, the multipart/alternative group buildRawEmail
\* emits (top-level without attachments, nested in the first part with them)
\* has exactly two parts, the text/plain part before the text/html part.
C15_PlainBeforeHtml ==
    (MailEncoded /\ EncodedHtml) =>
        \A lines \in { AlternativeEntity(MimeLines(local.raw)) } :
            LET group    == Entity(lines)
                boundary == MultipartBoundary(HeaderValue(group.headers, "Content-Type"),
                                              "alternative")
                parts    == MultipartParts(group.body, boundary)
            IN  /\ boundary # ""
                /\ Len(parts) = 2
                /\ ContentTypeOf(parts[1]) = "text/plain; charset=\"UTF-8\""
                /\ ContentTypeOf(parts[2]) = "text/html; charset=\"UTF-8\""
                /\ Entity(parts[1]).body = << Base64OfText(args.body) >>
                /\ Entity(parts[2]).body = << Base64OfText(args.htmlBody) >>

\* a message with an HTML body and two attachments has been encoded: its
\* first part is the alternative group
C15_Witness ==
    /\ MailEncoded /\ EncodedHtml
    /\ Len(EncodedAttachments) = 2
    /\ MultipartBoundary(ContentTypeOf(AlternativeEntity(MimeLines(local.raw))),
                         "alternative") # ""

----------------------------------------------------------------------------
(* C16 *)

\* C16: for a message with no attachments and no HTML body, the encoder of
\* the MCP server and the encoder of the webhook alike emit a single
\* text/plain; charset="UTF-8" part with Content-Transfer-Encoding: base64
\* and the base64 of the body, with no multipart wrapper and no boundary
\* line.
C16_PlainTextIsSinglePart ==
    (MailEncoded /\ Len(EncodedAttachments) = 0 /\ ~EncodedHtml) =>
        \A lines \in { MimeLines(local.raw) } :
            LET top == Entity(lines)
            IN  /\ HeaderValue(top.headers, "Content-Type")
                     = "text/plain; charset=\"UTF-8\""
                /\ HeaderValue(top.headers, "Content-Transfer-Encoding") = "base64"
                /\ top.body = << Base64OfText(args.body) >>
                /\ \A i \in 1..Len(lines) : ~StartsWith(lines[i], "--")

----------------------------------------------------------------------------
(* C17 *)

\* the boundary of the message: that of its top-level multipart type
OuterBoundary(lines) ==
    LET contentType == ContentTypeOf(lines)
    IN  IF MultipartBoundary(contentType, "mixed") # ""
        THEN MultipartBoundary(contentType, "mixed")
        ELSE MultipartBoundary(contentType, "alternative")

\* the boundary of the alternative group nested in a mixed message; "" when
\* the message has none
NestedBoundary(lines) ==
    IF Len(EncodedAttachments) > 0 /\ EncodedHtml
    THEN MultipartBoundary(ContentTypeOf(AlternativeEntity(lines)), "alternative")
    ELSE ""

\* delimiter lines the encoder writes for the outer boundary: one before the
\* body part and one before each attachment of a mixed message, two in a
\* top-level alternative group
OuterDelimiters ==
    IF tool = "webhook.buildRawEmail" \/ Len(EncodedAttachments) > 0
    THEN 1 + Len(EncodedAttachments)
    ELSE 2

\* C17: in every message an encoder emits, the boundary tokens are unique
\* within the message (the outer and the alternative boundary differ), and
\* no line that a body, an attachment's content or an attachment's filename
\* or mimeType contributes equals a delimiter line of the message: the only
\* lines equal to '--<boundary>' or '--<boundary>--' are the delimiters the
\* encoder wrote.
C17_BoundariesDoNotCollide ==
    MailEncoded =>
        \A lines \in { MimeLines(local.raw) } :
            LET outer  == OuterBoundary(lines)
                nested == NestedBoundary(lines)
            IN  /\ outer # "" =>
                      /\ Occurrences(lines, "--" \o outer) = OuterDelimiters
                      /\ Occurrences(lines, "--" \o outer \o "--") = 1
                /\ nested # "" =>
                      /\ nested # outer
                      /\ Occurrences(lines, "--" \o nested) = 2
                      /\ Occurrences(lines, "--" \o nested \o "--") = 1

----------------------------------------------------------------------------
(* C21 *)

ListingTools == {"search_emails", "list_drafts"}

\* the listing call of a listing tool has returned its items
Listed == tool \in ListingTools /\ Len(calls) >= 1 /\ calls[1].ok

\* the calls issued after the listing call
DetailCalls == SubSeq(calls, 2, Len(calls))

DetailApi == IF tool = "search_emails" THEN "users.messages.get" ELSE "users.drafts.get"

\* C21: in search_emails and list_drafts, after a listing that returned items
\* i1..in, the detail calls are issued one at a time and in the listing's
\* order: the k-th call is for item ik and is issued only when the k-1 calls
\* before it have completed; the handler returns a result only after exactly n
\* detail calls, and the k-th entry of the result describes item ik.
C21_DetailCallsInListingOrder ==
    Listed =>
        LET items == local.messages
            n     == Len(items)
            d     == DetailCalls
        IN  /\ Len(d) <= n
            /\ \A k \in 1..Len(d) :
                  /\ d[k].api = DetailApi
                  /\ d[k].req.id = items[k]
                  /\ k < Len(d) => d[k].ok
            /\ pc = "detail" =>
                  /\ local.i = Len(d) + 1
                  /\ Len(local.results) = Len(d)
                  /\ \A k \in 1..Len(d) : d[k].ok /\ local.results[k].id = items[k]
            /\ (pc = "done" /\ n > 0 /\ ~response.isError) =>
                  /\ Len(d) = n
                  /\ Len(response.json) = n
                  /\ \A k \in 1..n : response.json[k].id = items[k]

\* search_emails has listed m2, m1, m2, made three detail calls and returned
\* three entries
C21_Witness ==
    /\ tool = "search_emails" /\ pc = "done"
    /\ Listed
    /\ local.messages = <<"m2", "m1", "m2">>
    /\ Len(DetailCalls) = 3
    /\ ~response.isError
    /\ Len(response.json) = 3

----------------------------------------------------------------------------
(* C22 *)

\* what getCredentials makes of each Authorization header
HeaderCredentials == [ h \in ConcurrentHeaders |-> getCredentials(h) ]

\* the credentials a request's Authorization header carries
OwnCredentials(r) == HeaderCredentials[authorization[r]]

\* C22: under every interleaving of concurrent MCP requests, each provider
\* call made on behalf of a request is made with the client_id, client_secret
\* and refresh_token of that request's own Authorization header, and a
\* request's client holds no credentials but its own: nothing is shared
\* across requests.
C22_CallsUseOwnCredentials ==
    /\ \A i \in 1..Len(calls) :
          LET r == calls[i].request
          IN  /\ OwnCredentials(r).ok
              /\ calls[i].auth = GmailClient(OwnCredentials(r))
    /\ \A r \in Requests :
          gmail[r] # NoClient => /\ OwnCredentials(r).ok
                                 /\ gmail[r] = GmailClient(OwnCredentials(r))
    /\ env = NoEnv

\* two requests with different credentials have interleaved: the first made
\* a call, then the second, then the first again
C22_Witness ==
    /\ Len(calls) >= 3
    /\ calls[1].request = 1 /\ calls[2].request = 2 /\ calls[3].request = 1
    /\ calls[1].auth # calls[2].auth
    /\ calls[1].auth.clientId = calls[2].auth.clientId
    /\ calls[1].auth.refreshToken # calls[2].auth.refreshToken
    /\ pc[2] = "done"

----------------------------------------------------------------------------
(* C23 *)

\* the request's fields pass the webhook's validation: to and subject are
\* truthy and body is a string
FieldsPassed ==
    /\ args.kind = "object"
    /\ Truthy(args.to) /\ Truthy(args.subject)
    /\ args.body.t = "string"

WebhookSent == Len(calls) = 1 /\ calls[1].ok

\* C23: in the webhook the send call is issued at most once per request and
\* only after the bearer check (with WEBHOOK_SECRET set), the validation of
\* to, subject and body and the check of the environment credentials have
\* passed, in that order: a request that fails an earlier check is answered by
\* that check, whatever the later checks would have said. The 200 response
\* {ok: true, messageId} is returned exactly when the send call succeeded, and
\* messageId is the id the provider returned.
C23_WebhookSendsOnceAfterChecks ==
    tool = "webhook" =>
        /\ Len(calls) <= 1
        /\ (Len(calls) = 1 \/ pc = "webhook_send") =>
              /\ Authorised
              /\ FieldsPassed
              /\ GmailEnvConfigured
        /\ Len(calls) = 1 =>
              /\ calls[1].api = "users.messages.send"
              /\ pc = "done"
        /\ pc = "done" =>
              /\ ~Authorised => response.status = 401
              /\ (Authorised /\ args.kind = "object" /\ ~FieldsPassed) =>
                    response.status = 400
              /\ (Authorised /\ FieldsPassed /\ ~GmailEnvConfigured) =>
                    /\ response.status = 500
                    /\ response.error = ErrMissingEnv
              /\ (response.status = 200) <=> WebhookSent
              /\ response.ok <=> WebhookSent
              /\ WebhookSent =>
                    /\ response.messageId = local.result.data.id
                    /\ response.messageId \in ProviderIds

\* a request with the right bearer token has passed every check, its one send
\* call succeeded, and the answer carries the provider's id
C23_Witness ==
    /\ tool = "webhook" /\ pc = "done"
    /\ SecretConfigured /\ BearerPresented
    /\ WebhookSent
    /\ response.status = 200 /\ response.ok
    /\ local.result.data.id = "id-2"
    /\ response.messageId = "id-2"

----------------------------------------------------------------------------
(* C24 *)

\* a header of the original, as the handler reads it: "" when there is none
OriginalHeader(name) == getHeader(local.original.headers, name)

\* the header lines of the reply that was sent
ReplyHeaders == Entity(MimeLines(calls[2].req.raw)).headers

HasHeader(headers, name) ==
    \E i \in 1..Len(headers) : StartsWith(headers[i], name \o ": ")

\* the original's To and Cc values that are not empty, in that order
OriginalRecipients ==
    (IF OriginalHeader("To") # "" THEN << OriginalHeader("To") >> ELSE << >>)
    \o (IF OriginalHeader("Cc") # "" THEN << OriginalHeader("Cc") >> ELSE << >>)

\* C24: reply_to_email threads the reply onto the original. The send call is
\* issued only after the fetch of the original's metadata has returned; the
\* reply is addressed to the original From; In-Reply-To is the original
\* Message-ID; References is the original References, a space and the
\* original Message-ID, or the Message-ID alone when the original has no
\* References; the send call carries the original's threadId; a Cc header
\* listing the original's non-empty To and Cc values is present exactly when
\* replyAll is true and at least one of them is non-empty.
C24_ReplyThreadsOntoOriginal ==
    tool = "reply_to_email" =>
        /\ Len(calls) <= 2
        /\ Len(calls) >= 1 =>
              /\ calls[1].api = "users.messages.get"
              /\ calls[1].req.id = args.messageId
        /\ Len(calls) = 2 =>
              /\ calls[1].ok
              /\ calls[2].api = "users.messages.send"
              /\ calls[2].req.threadId = local.original.threadId
              /\ ReplyHeaders[1] = "To: " \o OriginalHeader("From")
              /\ HeaderValue(ReplyHeaders, "In-Reply-To") = OriginalHeader("Message-ID")
              /\ HeaderValue(ReplyHeaders, "References") =
                    IF OriginalHeader("References") # ""
                    THEN OriginalHeader("References") \o " " \o OriginalHeader("Message-ID")
                    ELSE OriginalHeader("Message-ID")
              /\ HasHeader(ReplyHeaders, "Cc") <=>
                    (args.replyAll /\ OriginalRecipients # << >>)
              /\ HasHeader(ReplyHeaders, "Cc") =>
                    /\ HeaderValue(ReplyHeaders, "Cc") = Join(OriginalRecipients, ", ")
                    /\ Occurrences(ReplyHeaders,
                                   "Cc: " \o Join(OriginalRecipients, ", ")) = 1

\* a reply to all recipients of a message that has To, Cc, Message-ID and
\* References has been sent in the original's thread
C24_Witness ==
    /\ tool = "reply_to_email" /\ pc = "done"
    /\ Len(calls) = 2 /\ calls[2].ok
    /\ args.replyAll
    /\ local.original.threadId = "t2"
    /\ calls[2].req.threadId = "t2"
    /\ ReplyHeaders[1] = "To: bob@x.com"
    /\ HeaderValue(ReplyHeaders, "Cc") = "me@x.com, eve@x.com"
    /\ HeaderValue(ReplyHeaders, "In-Reply-To") = "<2@x>"
    /\ HeaderValue(ReplyHeaders, "References") = "<0@x> <1@x> <2@x>"

====
